---- MODULE Spec2Model ----
(***************************************************************************)
(* ssh-liaison-mcp: the persistent shell executor (src/ssh/channel.rs) and *)
(* the session registry (src/ssh/session.rs).                              *)
(*                                                                         *)
(* Strings are sequences of tokens.  A token is one byte / one character   *)
(* of the PTY stream; a few fixed literals that the code only ever handles *)
(* as a whole ("; echo ", "[sudo] password", "Password:") are one token.   *)
(* Times are in milliseconds.                                              *)
(***************************************************************************)
EXTENDS Integers, Sequences, FiniteSets, TLC

----------------------------------------------------------------------------
(* Program constants, src/ssh/channel.rs lines 10-19 *)

COMMAND_TIMEOUT == 30000
READ_BUFFER_SIZE == 4096
READ_TIMEOUT_MS == 100
NO_DATA_THRESHOLD == 10
IDLE_TIMEOUT_MS == 500
CONTINUE_READ_ATTEMPTS == 10
CONTINUE_READ_TIMEOUT_MS == 100
CONTINUE_READ_MAX_FAILURES == 3
SLEEP_ON_EOF_MS == 50
SLEEP_ON_ERROR_MS == 10
\* the literal 5 of the tick branch, channel.rs line 232
TICK_NO_DATA_MIN == 5

----------------------------------------------------------------------------
(* Bounds of the model *)

\* longest silence of the remote between the echo and the command's output,
\* counted in half read-timeouts (50 ms each)
MaxGap == 9
\* the model stops following a command that is still reading at this time
MaxElapsed == 32000

\* one half read-timeout: the granularity of the remote's delays
WaitMs == READ_TIMEOUT_MS \div 2

----------------------------------------------------------------------------
(* Strings *)

Min(a, b) == IF a < b THEN a ELSE b

Take(s, n) == SubSeq(s, 1, Min(n, Len(s)))

Drop(s, n) == SubSeq(s, n + 1, Len(s))

\* s has sub at position i (1-based)
MatchAt(s, sub, i) ==
  /\ i >= 1
  /\ i + Len(sub) - 1 <= Len(s)
  /\ \A j \in 1..Len(sub) : s[i + j - 1] = sub[j]

\* str::find: the position of the first occurrence, 0 when there is none
Find(s, sub) ==
  LET hits == {i \in 1..(Len(s) + 1) : MatchAt(s, sub, i)}
  IN  IF hits = {} THEN 0 ELSE CHOOSE i \in hits : \A j \in hits : i <= j

\* str::contains
Contains(s, sub) == Find(s, sub) # 0

Whitespace == {"LF", "CR", " "}

\* str::trim_end
RECURSIVE trim_end(_)
trim_end(s) ==
  IF s # <<>> /\ s[Len(s)] \in Whitespace THEN trim_end(SubSeq(s, 1, Len(s) - 1))
  ELSE s

\* String::from_utf8_lossy on one read chunk.  C3 A9 is the two-byte
\* encoding of one character; a lead byte without its continuation byte, or
\* a continuation byte without its lead byte, becomes U+FFFD.
RECURSIVE from_utf8_lossy(_)
from_utf8_lossy(b) ==
  IF b = <<>> THEN <<>>
  ELSE IF b[1] = "C3" /\ Len(b) >= 2 /\ b[2] = "A9"
       THEN <<"e-acute">> \o from_utf8_lossy(Drop(b, 2))
  ELSE IF b[1] \in {"C3", "A9"}
       THEN <<"U+FFFD">> \o from_utf8_lossy(Drop(b, 1))
  ELSE <<b[1]>> \o from_utf8_lossy(Drop(b, 1))

----------------------------------------------------------------------------
(* Marker and framing *)

\* generate_marker: "__SSH_CMD_DONE_<nanos>__", three tokens
generate_marker(nanos) == <<"_", nanos, "_">>

\* format!("{}; echo {}", command, marker)
full_cmd(command, marker) == command \o <<"; echo ">> \o marker

\* format!("{}; echo {}\n", command, marker): the line written to the shell
full_command(command, marker) == full_cmd(command, marker) \o <<"LF">>

\* find_last_marker_position: the last of the non-overlapping occurrences
\* found scanning from the left; 0 when there is none
RECURSIVE find_last_from(_, _, _, _)
find_last_from(output, marker, search_pos, last) ==
  LET pos == Find(Drop(output, search_pos), marker)
  IN  IF pos = 0 THEN last
      ELSE find_last_from(output, marker, search_pos + pos - 1 + Len(marker),
                          search_pos + pos)

find_last_marker_position(output, marker) == find_last_from(output, marker, 0, 0)

\* remove_command_echo: delete occurrences of the echo literal until none is left
RECURSIVE remove_command_echo(_, _, _)
remove_command_echo(output, command, marker) ==
  LET lit == full_cmd(command, marker)
      p == Find(output, lit)
  IN  IF p = 0 THEN output
      ELSE remove_command_echo(
             SubSeq(output, 1, p - 1) \o Drop(output, p - 1 + Len(lit)),
             command, marker)

----------------------------------------------------------------------------
(* Output cleanup: clean_ansi_sequences, three Regex::replace_all passes *)

Letters == {"c", "h", "y", "m", "P"}

ParamChars == {"0", "1", "3", ";"}

\* the number of consecutive tokens of class cls in s from position i on
RECURSIVE RunLen(_, _, _)
RunLen(s, i, cls) ==
  IF i <= Len(s) /\ s[i] \in cls THEN 1 + RunLen(s, i + 1, cls) ELSE 0

\* \x1b\[[0-9;]*[a-zA-Z] : the length of the match starting at i, 0 for none
CsiMatch(s, i) ==
  IF i + 1 <= Len(s) /\ s[i] = "ESC" /\ s[i + 1] = "["
  THEN LET k == RunLen(s, i + 2, ParamChars)
       IN  IF i + 2 + k <= Len(s) /\ s[i + 2 + k] \in Letters THEN k + 3 ELSE 0
  ELSE 0

\* \x1b\][^\x07]*\x07
OscMatch(s, i) ==
  IF i + 1 <= Len(s) /\ s[i] = "ESC" /\ s[i + 1] = "]"
  THEN LET bels == {j \in (i + 2)..Len(s) : s[j] = "BEL"}
       IN  IF bels = {} THEN 0
           ELSE (CHOOSE j \in bels : \A k \in bels : j <= k) - i + 1
  ELSE 0

\* \x1b[P^_].*?\x1b\\ : the dot does not match a line feed
OtherMatch(s, i) ==
  IF i + 1 <= Len(s) /\ s[i] = "ESC" /\ s[i + 1] \in {"P", "^", "_"}
  THEN LET ends == {j \in (i + 2)..(Len(s) - 1) :
                      /\ s[j] = "ESC" /\ s[j + 1] = "BSL"
                      /\ \A k \in (i + 2)..(j - 1) : s[k] # "LF"}
       IN  IF ends = {} THEN 0
           ELSE (CHOOSE j \in ends : \A k \in ends : j <= k) - i + 2
  ELSE 0

\* Regex::replace_all(text, ""): leftmost non-overlapping matches removed
RECURSIVE StripCsi(_, _)
StripCsi(s, i) ==
  IF i > Len(s) THEN <<>>
  ELSE IF CsiMatch(s, i) > 0 THEN StripCsi(s, i + CsiMatch(s, i))
  ELSE <<s[i]>> \o StripCsi(s, i + 1)

RECURSIVE StripOsc(_, _)
StripOsc(s, i) ==
  IF i > Len(s) THEN <<>>
  ELSE IF OscMatch(s, i) > 0 THEN StripOsc(s, i + OscMatch(s, i))
  ELSE <<s[i]>> \o StripOsc(s, i + 1)

RECURSIVE StripOther(_, _)
StripOther(s, i) ==
  IF i > Len(s) THEN <<>>
  ELSE IF OtherMatch(s, i) > 0 THEN StripOther(s, i + OtherMatch(s, i))
  ELSE <<s[i]>> \o StripOther(s, i + 1)

clean_ansi_sequences(text) == StripOther(StripOsc(StripCsi(text, 1), 1), 1)

\* CommandOutput.stdout of a successful return, channel.rs lines 250-255
CleanedOutput(buf) == trim_end(clean_ansi_sequences(buf))

----------------------------------------------------------------------------
(* The remote side of one shell channel.                                   *)
(*                                                                         *)
(* A script is the sequence of bytes the remote will emit, with control    *)
(* tokens between them: "w" is 50 ms in which nothing arrives, "EOF" makes *)
(* one read return Ok(0), "ERR" makes one read return Err.  When the       *)
(* script is used up the remote repeats its cycle, or stays silent if the  *)
(* cycle is empty.                                                         *)

Command == <<"c">>

Marker1 == generate_marker("1")

ControlTokens == {"w", "EOF", "ERR"}

RECURSIVE Waits(_)
Waits(k) == IF k = 0 THEN <<>> ELSE <<"w">> \o Waits(k - 1)

\* the PTY's echo of the written line
EchoLine == full_cmd(Command, Marker1) \o <<"CR", "LF">>

\* the same echo on a terminal that wraps the line inside the command text
WrappedEcho == Command \o <<"CR", "; echo ">> \o Marker1 \o <<"CR", "LF">>

Echoes == {<<>>, EchoLine, WrappedEcho}

GapLens == {0, 1, MaxGap}

Outputs ==
  { <<"h", "CR", "LF">>,
    <<"C3", "A9", "LF">>,
    <<"ESC", "[", "3", "m", "h", "LF">>,
    <<"h", "LF", "w", "h", "LF">> }

\* the outputs without a multi-byte character
AsciiOutputs == {o \in Outputs : \A i \in 1..Len(o) : o[i] \notin {"C3", "A9"}}

\* the line the remote shell prints when `echo <marker>` runs
MarkLine == Marker1 \o <<"CR", "LF">>

Tails == {<<>>, <<"$">>}

\* a command that prints out and completes
CommandScripts ==
  { [kind |-> "cmd", echo |-> e, gap |-> g, out |-> o, tail |-> t,
     pre |-> e \o Waits(g) \o o \o MarkLine \o t, cycle |-> <<>>] :
    e \in Echoes, g \in GapLens, o \in Outputs, t \in Tails }

\* the 50 ms steps in which a long-running command prints a line: it goes on
\* past the command deadline and then stops
BurstCycles == (COMMAND_TIMEOUT + 16 * READ_TIMEOUT_MS) \div WaitMs

Burst ==
  [i \in 1..(3 * BurstCycles) |->
     IF i % 3 = 1 THEN "w" ELSE IF i % 3 = 2 THEN "y" ELSE "LF"]

NoFields(k, p, c) ==
  [kind |-> k, echo |-> <<>>, gap |-> 0, out |-> <<>>, tail |-> <<>>,
   pre |-> p, cycle |-> c]

OtherScripts ==
  { \* sudo asks for a password and waits for it
    NoFields("sudo", EchoLine \o <<"[sudo] password">>, <<>>),
    NoFields("sudo", <<"Password:">>, <<>>),
    \* `yes`: output without end
    NoFields("yes", EchoLine, <<"w", "y", "LF">>),
    \* output for some 31 s, then silence without a marker
    NoFields("burst", EchoLine \o Burst, <<>>),
    \* echo off, the command hangs
    NoFields("hang", <<>>, <<>>),
    \* the remote closed the channel
    NoFields("closed", <<"h">>, <<"EOF">>),
    NoFields("closed", <<"h", "w", "w", "EOF", "EOF", "EOF", "EOF", "EOF", "EOF">>, <<>>),
    NoFields("closed", EchoLine \o <<"EOF", "h", "LF">> \o MarkLine, <<"EOF">>),
    \* output with a CSI sequence inside another, and with a DCS string
    \* that runs over two lines
    NoFields("esc", EchoLine \o <<"ESC", "[", "ESC", "[", "3", "m", "m", "h", "LF">> \o MarkLine, <<>>),
    NoFields("esc", EchoLine \o <<"ESC", "P", "h", "LF", "h", "ESC", "BSL", "h", "LF">> \o MarkLine, <<>>),
    \* a transient read error, then a normal completion
    NoFields("flaky", <<"ERR">> \o EchoLine \o <<"ERR", "h", "LF">> \o MarkLine, <<>>),
    \* the channel is already broken when the command is written
    NoFields("broken", <<>>, <<>>) }

Scripts == CommandScripts \cup OtherScripts

Refill(p, cyc) == IF p = <<>> THEN cyc ELSE p

\* What the next read of the channel does, given what the remote has still
\* to emit: [kind, lat, run, rest].  kind "timeout": nothing arrives within
\* the read timeout; "data": run bytes are available after lat ms.
ReadOutcome(p) ==
  LET k == RunLen(p, 1, {"w"})
      after == Drop(p, Min(k, 2))
  IN  IF k >= 2 \/ after = <<>>
        THEN [kind |-> "timeout", lat |-> READ_TIMEOUT_MS, run |-> 0, rest |-> after]
      ELSE IF after[1] = "EOF"
        THEN [kind |-> "zero", lat |-> k * WaitMs, run |-> 0, rest |-> Drop(after, 1)]
      ELSE IF after[1] = "ERR"
        THEN [kind |-> "err", lat |-> k * WaitMs, run |-> 0, rest |-> Drop(after, 1)]
      ELSE [kind |-> "data", lat |-> k * WaitMs,
            run |-> Min(RunLen(after, 1, {x \in {after[i] : i \in 1..Len(after)} :
                                          x \notin ControlTokens}),
                        READ_BUFFER_SIZE),
            rest |-> after]

----------------------------------------------------------------------------
(* State *)

VARIABLES
  \* ShellChannel::execute_command, one call
  pc,               \* "idle", "loop" (main read loop), "drain", "done"
  stdout,           \* the accumulated buffer
  marker_found,
  no_data_count,
  last_read_time,   \* ms since start
  continue_reading,
  read_attempts,
  now,              \* start.elapsed(), ms
  result,           \* what the call returned: [kind, stdout]
  written,          \* the lines written to the channel, in order
  \* the remote
  script,           \* the behaviour chosen for this run
  pending,          \* what the remote has still to emit
  sawPrompt,        \* the buffer has contained an elevation prompt
  sudo_password,    \* the password the caller passed for this call, or none
  marker,           \* the sentinel generate_marker returned for this call
  used,             \* the sentinels of the earlier calls on this channel
  cut,              \* the buffer as it was when it was last truncated
  drain_reads       \* reads made by the drain loop since it was entered,
                    \* counted up to one past CONTINUE_READ_ATTEMPTS

execVars ==
  <<pc, stdout, marker_found, no_data_count, last_read_time, continue_reading,
    read_attempts, now, result, written, script, pending, sawPrompt,
    sudo_password, marker, used, cut, drain_reads>>

VARIABLES
  \* SessionManager and its callers
  sessions,         \* the HashMap: alias -> SessionState, NoSession when absent
  lock,             \* the holder of the Mutex, or "free"
  lockq,            \* the tasks waiting in lock().await, first come first
  cpc,              \* per task: where it is in its current call
  cop,              \* per task: the current call [op, alias, cmd]
  cret,             \* per task: what its last call returned
  csess,            \* per task: the SessionState it owns outside the map
  connected,        \* history: connect_* succeeded, no disconnect since
  servedLog         \* history: per alias, the commands of the execute calls
                    \* served since the last connect or disconnect of the alias

regVars ==
  <<sessions, lock, lockq, cpc, cop, cret, csess, connected, servedLog>>

VARIABLES
  \* one connect_by_alias, connect_direct or connect_with_password call
  cn_pc,            \* the step the call is at
  host_alias,       \* the alias the call is for
  method,           \* which of the three methods was called
  config,           \* the SshHostConfig the ladder works from
  files,            \* the key files that exist on this machine
  calls,            \* the address lookup and the library calls on the new session, in order
  authenticated,    \* the local flag of connect_with_config
  session_authenticated,  \* what session.authenticated() reports
  key_index,        \* position in key_paths of the common-path loop
  cn_ret            \* what the call returned

connVars ==
  <<cn_pc, host_alias, method, config, files, calls, authenticated,
    session_authenticated, key_index, cn_ret>>

VARIABLES
  \* the process around one SessionManager: main.rs, cli.rs, mcp/mod.rs
  mode,             \* the subcommand: serve, cli or connect
  ppc,              \* where the process is: start, run (about to read a
                    \* line), blank (an empty line was read), exited
  current_host,     \* cli.rs line 12: the alias the prompt works on
  gone,             \* history: the sessions disconnect took out of the map
  eof               \* standard input has reached end-of-file

procVars == <<mode, ppc, current_host, gone, eof>>

VARIABLES
  \* one parse_ssh_config call
  fs,               \* the files: path -> lines
  cfg_alias,        \* host_alias
  cfg_pc,           \* the step the call is at
  rd,               \* read_config_file: its activations, visited, content
  parsed,           \* current_host and hosts after the loop over the lines
  cfg_result        \* what the call returned

cfgVars == <<fs, cfg_alias, cfg_pc, rd, parsed, cfg_result>>

VARIABLES
  \* one result of execute_command handed to the tool layer
  exec_kind,        \* Ok, or the error execute_command returned
  output,           \* the CommandOutput: stdout and stderr
  tl_pc,            \* which of the renderings have been made
  rendered,         \* output.combined()
  run_result,       \* what ssh_run_command returns for it
  log_result        \* what ssh_read_log returns for it

toolVars == <<exec_kind, output, tl_pc, rendered, run_result, log_result>>

\* the variables outside the channel, the SessionManager and the establisher
restVars == <<procVars, cfgVars, toolVars>>

vars == <<execVars, regVars, connVars, restVars>>

NoResult == [kind |-> "none", stdout |-> <<>>]

SudoPrompts == {<<"[sudo] password">>, <<"Password:">>}

HasPrompt(buf) == \E pr \in SudoPrompts : Contains(buf, pr)

\* session.rs line 322: sudo_password: Option<&str>; the empty one is None
NoPassword == <<>>

Passwords == {NoPassword, <<"pw">>}

InitExec ==
  /\ script \in Scripts
  /\ sudo_password \in Passwords
  /\ pending = <<>>
  /\ pc = "idle"
  /\ stdout = <<>>
  /\ marker_found = FALSE
  /\ no_data_count = 0
  /\ last_read_time = 0
  /\ continue_reading = FALSE
  /\ read_attempts = 0
  /\ marker = Marker1
  /\ used = <<>>
  /\ cut = <<>>
  /\ drain_reads = 0
  /\ now = 0
  /\ result = NoResult
  /\ written = <<>>
  /\ sawPrompt = FALSE

----------------------------------------------------------------------------
(* ShellChannel::execute_command *)

\* lines 250-255: the successful return
ReturnOk(buf) ==
  /\ pc' = "done"
  /\ result' = [kind |-> "Ok", stdout |-> CleanedOutput(buf)]

\* lines 116-136: write the framed command, flush, start the clock
ExecWrite ==
  /\ pc = "idle"
  /\ IF script.kind = "broken"
       THEN /\ pc' = "done"
            /\ result' = [kind |-> "IoError", stdout |-> <<>>]
            /\ UNCHANGED <<written, pending>>
       ELSE /\ written' = Append(written, full_command(Command, marker))
            /\ pending' = Refill(pending \o script.pre, script.cycle)
            /\ pc' = "loop"
            /\ UNCHANGED result
  /\ UNCHANGED regVars
  /\ UNCHANGED <<connVars, restVars>>
  /\ UNCHANGED <<stdout, marker_found, no_data_count, last_read_time,
                 continue_reading, read_attempts, now, script, sudo_password, marker, used, cut, drain_reads, sawPrompt>>

\* lines 139-144: the deadline check at the head of each iteration
LoopTimeout ==
  /\ pc = "loop"
  /\ now > COMMAND_TIMEOUT
  /\ pc' = "done"
  /\ result' = [kind |-> "Timeout", stdout |-> <<>>]
  /\ UNCHANGED regVars
  /\ UNCHANGED <<connVars, restVars>>
  /\ UNCHANGED <<stdout, marker_found, no_data_count, last_read_time,
                 continue_reading, read_attempts, now, written, script, sudo_password, marker, used, cut, drain_reads, pending,
                 sawPrompt>>

\* lines 165-183: Ok(n), n > 0
LoopReadData ==
  /\ pc = "loop"
  /\ ~(now > COMMAND_TIMEOUT)
  /\ LET o == ReadOutcome(pending) IN
     /\ o.kind = "data"
     /\ \E n \in 1..o.run :
          LET buf == stdout \o from_utf8_lossy(Take(o.rest, n)) IN
          /\ now' = now + o.lat
          /\ last_read_time' = now'
          /\ no_data_count' = 0
          /\ stdout' = buf
          /\ sawPrompt' = (sawPrompt \/ HasPrompt(buf))
          /\ pending' = Refill(Drop(o.rest, n), script.cycle)
          /\ IF Find(buf, marker) # 0
               THEN /\ pc' = "drain"
                    /\ continue_reading' = TRUE
                    /\ read_attempts' = 0
                    /\ drain_reads' = 0
               ELSE UNCHANGED <<pc, continue_reading, read_attempts, drain_reads>>
  /\ UNCHANGED regVars
  /\ UNCHANGED <<connVars, restVars>>
  /\ UNCHANGED <<marker_found, result, written, script, sudo_password, marker, used, cut>>

\* lines 152-164: Ok(0)
LoopReadZero ==
  /\ pc = "loop"
  /\ ~(now > COMMAND_TIMEOUT)
  /\ LET o == ReadOutcome(pending) IN
     /\ o.kind = "zero"
     /\ pending' = Refill(o.rest, script.cycle)
     /\ IF marker_found
          THEN /\ now' = now + o.lat
               /\ ReturnOk(stdout)
               /\ UNCHANGED no_data_count
          ELSE /\ no_data_count' = no_data_count + 1
               /\ IF /\ no_data_count' > NO_DATA_THRESHOLD
                     /\ (now + o.lat) - last_read_time > IDLE_TIMEOUT_MS
                    THEN /\ now' = now + o.lat
                         /\ ReturnOk(stdout)
                    ELSE /\ now' = now + o.lat + SLEEP_ON_EOF_MS
                         /\ UNCHANGED <<pc, result>>
  /\ UNCHANGED regVars
  /\ UNCHANGED <<connVars, restVars>>
  /\ UNCHANGED <<stdout, marker_found, last_read_time, continue_reading,
                 read_attempts, written, script, sudo_password, marker, used, cut, drain_reads, sawPrompt>>

\* lines 220-225: Err(e)
LoopReadErr ==
  /\ pc = "loop"
  /\ ~(now > COMMAND_TIMEOUT)
  /\ LET o == ReadOutcome(pending) IN
     /\ o.kind = "err"
     /\ pending' = Refill(o.rest, script.cycle)
     /\ now' = now + o.lat + SLEEP_ON_ERROR_MS
  /\ UNCHANGED regVars
  /\ UNCHANGED <<connVars, restVars>>
  /\ UNCHANGED <<pc, stdout, marker_found, no_data_count, last_read_time,
                 continue_reading, read_attempts, result, written, script, sudo_password, marker, used, cut, drain_reads,
                 sawPrompt>>

\* a tick that ends the loop on the count alone, without the idle test
LoopTick_count_only ==
  /\ pc = "loop"
  /\ ~(now > COMMAND_TIMEOUT)
  /\ LET o == ReadOutcome(pending) IN
     /\ o.kind = "timeout"
     /\ pending' = Refill(o.rest, script.cycle)
     /\ now' = now + READ_TIMEOUT_MS
     /\ IF marker_found \/ no_data_count > TICK_NO_DATA_MIN
          THEN ReturnOk(stdout)
          ELSE UNCHANGED <<pc, result>>
  /\ UNCHANGED regVars
  /\ UNCHANGED <<connVars, restVars>>
  /\ UNCHANGED <<stdout, marker_found, no_data_count, last_read_time,
                 continue_reading, read_attempts, written, script,
                 sudo_password, marker, used, cut, drain_reads, sawPrompt>>

\* lines 228-238: the 100 ms tick wins the select
LoopTick ==
  /\ pc = "loop"
  /\ ~(now > COMMAND_TIMEOUT)
  /\ LET o == ReadOutcome(pending) IN
     /\ o.kind = "timeout"
     /\ pending' = Refill(o.rest, script.cycle)
     /\ now' = now + READ_TIMEOUT_MS
     /\ IF \/ marker_found
           \/ /\ now' - last_read_time > IDLE_TIMEOUT_MS
              /\ no_data_count > TICK_NO_DATA_MIN
          THEN ReturnOk(stdout)
          ELSE UNCHANGED <<pc, result>>
  /\ UNCHANGED regVars
  /\ UNCHANGED <<connVars, restVars>>
  /\ UNCHANGED <<stdout, marker_found, no_data_count, last_read_time,
                 continue_reading, read_attempts, written, script, sudo_password, marker, used, cut, drain_reads, sawPrompt>>

\* lines 185 and 209-217: the drain loop's condition, and what follows the
\* loop once it is false: truncate at the last marker, remove the echo, return
AfterDrainRead(buf, attempts, cont) ==
  /\ read_attempts' = attempts
  /\ continue_reading' = cont
  /\ drain_reads' = Min(drain_reads + 1, CONTINUE_READ_ATTEMPTS + 1)
  /\ IF cont /\ attempts < CONTINUE_READ_ATTEMPTS
       THEN /\ stdout' = buf
            /\ UNCHANGED <<pc, marker_found, result, cut>>
       ELSE LET pos == find_last_marker_position(buf, marker) IN
            IF pos # 0
              THEN /\ stdout' = remove_command_echo(Take(buf, pos - 1), Command, marker)
                   /\ cut' = buf
                   /\ marker_found' = TRUE
                   /\ ReturnOk(stdout')
              ELSE /\ stdout' = buf
                   /\ pc' = "loop"
                   /\ UNCHANGED <<marker_found, result, cut>>

\* lines 187-190: Ok(Ok(0)) in the drain loop
DrainReadZero ==
  /\ pc = "drain"
  /\ now <= MaxElapsed
  /\ LET o == ReadOutcome(pending) IN
     /\ o.kind = "zero"
     /\ pending' = Refill(o.rest, script.cycle)
     /\ now' = now + o.lat + SLEEP_ON_EOF_MS
     /\ AfterDrainRead(stdout, read_attempts + 1, continue_reading)
  /\ UNCHANGED regVars
  /\ UNCHANGED <<connVars, restVars>>
  /\ UNCHANGED <<no_data_count, last_read_time, written, script, sudo_password, marker, used, sawPrompt>>

\* lines 191-199: Ok(Ok(n)) in the drain loop
DrainReadData ==
  /\ pc = "drain"
  /\ now <= MaxElapsed
  /\ LET o == ReadOutcome(pending) IN
     /\ o.kind = "data"
     /\ \E n \in 1..o.run :
          LET chunk == from_utf8_lossy(Take(o.rest, n)) IN
          /\ pending' = Refill(Drop(o.rest, n), script.cycle)
          /\ now' = now + o.lat
          /\ sawPrompt' = (sawPrompt \/ HasPrompt(stdout \o chunk))
          /\ AfterDrainRead(stdout \o chunk, 0,
                            IF Contains(chunk, marker) THEN FALSE ELSE continue_reading)
  /\ UNCHANGED regVars
  /\ UNCHANGED <<connVars, restVars>>
  /\ UNCHANGED <<no_data_count, last_read_time, written, script, sudo_password, marker, used>>

\* lines 200-205: the read timed out, or returned an error
DrainReadFail ==
  /\ pc = "drain"
  /\ now <= MaxElapsed
  /\ LET o == ReadOutcome(pending) IN
     /\ o.kind \in {"timeout", "err"}
     /\ pending' = Refill(o.rest, script.cycle)
     /\ now' = now + o.lat
     /\ AfterDrainRead(stdout, read_attempts + 1,
                       IF read_attempts + 1 > CONTINUE_READ_MAX_FAILURES
                         THEN FALSE ELSE continue_reading)
  /\ UNCHANGED regVars
  /\ UNCHANGED <<connVars, restVars>>
  /\ UNCHANGED <<no_data_count, last_read_time, written, script, sudo_password, marker, used, sawPrompt>>

\* what the system clock reads, in nanoseconds, when a later call asks: the
\* reading of the call before (a clock that has not advanced, or was set
\* back) or a new one
ClockReadings == {"1", "2"}

\* what the remote emits for the second run of the command: the echo, a
\* line of output and the marker line
NextScript(m) ==
  LET e == full_cmd(Command, m) \o <<"CR", "LF">>
      o == <<"k", "CR", "LF">>
  IN  [kind |-> "cmd", echo |-> e, gap |-> 0, out |-> o, tail |-> <<>>,
       pre |-> e \o o \o m \o <<"CR", "LF">>, cycle |-> <<>>]

\* lines 113-137, a later call on the same channel after a success: a new
\* marker from the clock and fresh locals; what the remote has not yet
\* delivered is still in the stream
ExecNextCall ==
  /\ pc = "done"
  /\ result.kind = "Ok"
  /\ used = <<>>
  /\ script.cycle = <<>>
  /\ \E t \in ClockReadings :
       /\ marker' = generate_marker(t)
       /\ script' = NextScript(marker')
  /\ used' = Append(used, marker)
  /\ pc' = "idle"
  /\ stdout' = <<>>
  /\ marker_found' = FALSE
  /\ no_data_count' = 0
  /\ last_read_time' = 0
  /\ continue_reading' = FALSE
  /\ read_attempts' = 0
  /\ now' = 0
  /\ result' = NoResult
  /\ cut' = <<>>
  /\ drain_reads' = 0
  /\ UNCHANGED regVars
  /\ UNCHANGED <<connVars, restVars>>
  /\ UNCHANGED <<written, pending, sudo_password, sawPrompt>>

NextExec ==
  \/ ExecWrite
  \/ LoopTimeout
  \/ LoopReadData
  \/ LoopReadZero
  \/ LoopReadErr
  \/ LoopTick
  \/ DrainReadZero
  \/ DrainReadData
  \/ DrainReadFail

\* two successive calls on one channel
NextSeq ==
  \/ NextExec
  \/ ExecNextCall


----------------------------------------------------------------------------
(* SessionManager, src/ssh/session.rs *)

Tasks == {"t1", "t2"}

Aliases == {"a", "b"}

\* the command each task sends
CommandOf == [t \in Tasks |-> IF t = "t1" THEN <<"cd">> ELSE <<"pwd">>]

\* command lines one session's channel is sent at most
MaxLog == 2

\* SessionState { session, channel }: what was written to the channel, and
\* whether the channel was closed and the SSH disconnect sent
NewSession == [written |-> <<>>, closed |-> FALSE, goodbye |-> FALSE]

\* Option::None of get_mut and remove: no SessionState
NoSession == [written |-> <<>>, closed |-> TRUE, goodbye |-> TRUE]

ConnectOps == {"connect_by_alias", "connect_direct", "connect_with_password"}

NoCall == [op |-> "none", alias |-> "a", cmd |-> <<>>]

Keys == {a \in Aliases : sessions[a] # NoSession}

\* a call's return value; keys is the snapshot list_connections returns
Ret(v) == [val |-> v, keys |-> {}]

\* SessionManager::new, and no call in progress
InitReg ==
  /\ sessions = [a \in Aliases |-> NoSession]
  /\ lock = "free"
  /\ lockq = <<>>
  /\ cpc = [t \in Tasks |-> "idle"]
  /\ cop = [t \in Tasks |-> NoCall]
  /\ cret = [t \in Tasks |-> Ret("none")]
  /\ csess = [t \in Tasks |-> NoSession]
  /\ connected = {}
  /\ servedLog = [a \in Aliases |-> <<>>]

\* no execute_command of the channel model is running
ExecIdle ==
  /\ script = NoFields("hang", <<>>, <<>>)
  /\ sudo_password = NoPassword
  /\ pending = <<>>
  /\ pc = "idle"
  /\ stdout = <<>>
  /\ marker_found = FALSE
  /\ no_data_count = 0
  /\ last_read_time = 0
  /\ continue_reading = FALSE
  /\ read_attempts = 0
  /\ marker = Marker1
  /\ used = <<>>
  /\ cut = <<>>
  /\ drain_reads = 0
  /\ now = 0
  /\ result = NoResult
  /\ written = <<>>
  /\ sawPrompt = FALSE

\* the calls a task can make: [op, alias, cmd]
Calls(t) ==
  [op : ConnectOps \cup {"disconnect", "is_connected"}, alias : Aliases, cmd : {<<>>}]
    \cup [op : {"execute"}, alias : Aliases, cmd : {CommandOf[t]}]
    \cup {[op |-> "list_connections", alias |-> "a", cmd |-> <<>>]}

\* execute calls for alias a that are issued and not yet served
ExecWaiting(a) ==
  Cardinality({t \in Tasks : cpc[t] = "wait" /\ cop[t].op = "execute" /\ cop[t].alias = a})

\* a task starts a call; the calls that begin with lock().await queue for it
Call(t) ==
  /\ cpc[t] = "idle"
  /\ \E c \in Calls(t) :
       /\ c.op = "execute" => Len(sessions[c.alias].written) + ExecWaiting(c.alias) < MaxLog
       /\ cop' = [cop EXCEPT ![t] = c]
       /\ IF c.op \in ConnectOps
            THEN /\ cpc' = [cpc EXCEPT ![t] = "establish"]
                 /\ UNCHANGED lockq
            ELSE /\ cpc' = [cpc EXCEPT ![t] = "wait"]
                 /\ lockq' = Append(lockq, t)
  /\ cret' = [cret EXCEPT ![t] = Ret("none")]
  /\ UNCHANGED <<sessions, lock, csess, connected, servedLog>>
  /\ UNCHANGED execVars
  /\ UNCHANGED <<connVars, restVars>>

\* the outcomes of the steps a connect_* makes before it touches the map
ConnectErrors(op) ==
  (IF op = "connect_by_alias" THEN {"HostNotFound"} ELSE {}) \cup {"ConnectError"}

\* the call of task t returns v
Return(t, v) ==
  /\ cret' = [cret EXCEPT ![t] = v]
  /\ cpc' = [cpc EXCEPT ![t] = "idle"]
  /\ cop' = [cop EXCEPT ![t] = NoCall]

\* session.rs lines 34-222 and 265-297: a step before the insertion fails
ConnectFail(t) ==
  /\ cpc[t] = "establish"
  /\ \E e \in ConnectErrors(cop[t].op) : Return(t, Ret(e))
  /\ UNCHANGED <<sessions, lock, lockq, csess, connected, servedLog>>
  /\ UNCHANGED execVars
  /\ UNCHANGED <<connVars, restVars>>

\* session.rs lines 208-231 and 283-306: authenticated, channel opened, PTY
\* requested, shell started, SessionState built; then lock().await
ConnectEstablished(t) ==
  /\ cpc[t] = "establish"
  /\ csess' = [csess EXCEPT ![t] = NewSession]
  /\ cpc' = [cpc EXCEPT ![t] = "wait"]
  /\ lockq' = Append(lockq, t)
  /\ UNCHANGED <<sessions, lock, cop, cret, connected, servedLog>>
  /\ UNCHANGED execVars
  /\ UNCHANGED <<connVars, restVars>>

\* tokio::sync::Mutex::lock: granted when free, in arrival order
CanAcquire(t) ==
  /\ cpc[t] = "wait"
  /\ lock = "free"
  /\ lockq # <<>>
  /\ Head(lockq) = t

\* variant of ConnectInsert: entry(alias).or_insert(state), an existing
\* session is kept and the new one dropped
ConnectInsert_keep(t) ==
  /\ CanAcquire(t)
  /\ cop[t].op \in ConnectOps
  /\ lockq' = Tail(lockq)
  /\ sessions' = [sessions EXCEPT ![cop[t].alias] =
                    IF cop[t].alias \in Keys THEN @ ELSE csess[t]]
  /\ csess' = [csess EXCEPT ![t] = NoSession]
  /\ Return(t, Ret("Ok"))
  /\ connected' = connected \cup {cop[t].alias}
  /\ servedLog' = [servedLog EXCEPT ![cop[t].alias] = <<>>]
  /\ UNCHANGED lock
  /\ UNCHANGED execVars
  /\ UNCHANGED <<connVars, restVars>>

\* session.rs lines 231-234 and 306-309: sessions.insert, Ok(())
ConnectInsert(t) ==
  /\ CanAcquire(t)
  /\ cop[t].op \in ConnectOps
  /\ lockq' = Tail(lockq)
  /\ sessions' = [sessions EXCEPT ![cop[t].alias] = csess[t]]
  /\ csess' = [csess EXCEPT ![t] = NoSession]
  /\ Return(t, Ret("Ok"))
  /\ connected' = connected \cup {cop[t].alias}
  /\ servedLog' = [servedLog EXCEPT ![cop[t].alias] = <<>>]
  /\ UNCHANGED lock
  /\ UNCHANGED execVars
  /\ UNCHANGED <<connVars, restVars>>

\* variant of ExecAcquire: the map is looked up under the lock but the guard
\* is dropped before the channel is used
ExecAcquire_unlocked(t) ==
  /\ CanAcquire(t)
  /\ cop[t].op = "execute"
  /\ lockq' = Tail(lockq)
  /\ IF cop[t].alias \in Keys
       THEN /\ servedLog' = [servedLog EXCEPT ![cop[t].alias] = Append(@, cop[t].cmd)]
            /\ cpc' = [cpc EXCEPT ![t] = "exec_write"]
            /\ UNCHANGED <<cret, cop>>
       ELSE /\ Return(t, Ret("NotConnected"))
            /\ UNCHANGED servedLog
  /\ UNCHANGED <<sessions, lock, csess, connected>>
  /\ UNCHANGED execVars
  /\ UNCHANGED <<connVars, restVars>>

\* variant of ExecAcquire: entry(host_alias).or_insert instead of get_mut, a
\* missing alias gets an entry and the command is run on it
ExecAcquire_create(t) ==
  /\ CanAcquire(t)
  /\ cop[t].op = "execute"
  /\ lockq' = Tail(lockq)
  /\ lock' = t
  /\ sessions' = [sessions EXCEPT ![cop[t].alias] =
                    IF cop[t].alias \in Keys THEN @ ELSE NewSession]
  /\ servedLog' = [servedLog EXCEPT ![cop[t].alias] = Append(@, cop[t].cmd)]
  /\ cpc' = [cpc EXCEPT ![t] = "exec_write"]
  /\ UNCHANGED <<cret, cop, csess, connected>>
  /\ UNCHANGED execVars
  /\ UNCHANGED <<connVars, restVars>>

\* session.rs lines 324-327: lock, get_mut(host_alias) or "Not connected"
ExecAcquire(t) ==
  /\ CanAcquire(t)
  /\ cop[t].op = "execute"
  /\ lockq' = Tail(lockq)
  /\ IF cop[t].alias \in Keys
       THEN /\ lock' = t
            /\ servedLog' = [servedLog EXCEPT ![cop[t].alias] = Append(@, cop[t].cmd)]
            /\ cpc' = [cpc EXCEPT ![t] = "exec_write"]
            /\ UNCHANGED <<cret, cop>>
       ELSE /\ Return(t, Ret("NotConnected"))
            /\ UNCHANGED <<lock, servedLog>>
  /\ UNCHANGED <<sessions, csess, connected>>
  /\ UNCHANGED execVars
  /\ UNCHANGED <<connVars, restVars>>

\* variant of ExecChannelWrite: the guard is dropped once the command is
\* written, before its output is read
ExecChannelWrite_release(t) ==
  /\ cpc[t] = "exec_write"
  /\ LET a == cop[t].alias IN
     \/ /\ sessions' = [sessions EXCEPT ![a].written = Append(@, cop[t].cmd)]
        /\ cpc' = [cpc EXCEPT ![t] = "exec_read"]
        /\ lock' = "free"
        /\ UNCHANGED <<cret, cop, servedLog>>
     \/ /\ Return(t, Ret("IoError"))
        /\ servedLog' = [servedLog EXCEPT ![a] = SubSeq(@, 1, Len(@) - 1)]
        /\ lock' = "free"
        /\ UNCHANGED sessions
  /\ UNCHANGED <<lockq, csess, connected>>
  /\ UNCHANGED execVars
  /\ UNCHANGED <<connVars, restVars>>

\* session.rs line 329 with channel.rs lines 116-125: the framed command is
\* written to the channel of the alias's session, or the write fails and
\* the call returns
ExecChannelWrite(t) ==
  /\ cpc[t] = "exec_write"
  /\ LET a == cop[t].alias IN
     \/ /\ sessions' = [sessions EXCEPT ![a].written = Append(@, cop[t].cmd)]
        /\ cpc' = [cpc EXCEPT ![t] = "exec_read"]
        /\ UNCHANGED <<lock, cret, cop, servedLog>>
     \/ /\ Return(t, Ret("IoError"))
        /\ servedLog' = [servedLog EXCEPT ![a] = SubSeq(@, 1, Len(@) - 1)]
        /\ lock' = "free"
        /\ UNCHANGED sessions
  /\ UNCHANGED <<lockq, csess, connected>>
  /\ UNCHANGED execVars
  /\ UNCHANGED <<connVars, restVars>>

\* variant of ExecReturn: a session whose command timed out is taken out
\* of the map
ExecReturn_evict(t) ==
  /\ cpc[t] = "exec_read"
  /\ \/ /\ Return(t, Ret("Ok"))
        /\ UNCHANGED <<sessions, connected, servedLog>>
     \/ /\ Return(t, Ret("Timeout"))
        /\ sessions' = [sessions EXCEPT ![cop[t].alias] = NoSession]
        /\ connected' = connected \ {cop[t].alias}
        /\ servedLog' = [servedLog EXCEPT ![cop[t].alias] = <<>>]
  /\ lock' = "free"
  /\ UNCHANGED <<lockq, csess>>
  /\ UNCHANGED execVars
  /\ UNCHANGED <<connVars, restVars>>

\* session.rs line 329-330 with channel.rs lines 131-256: the read loop ends,
\* the call returns and the guard is dropped
ExecReturn(t) ==
  /\ cpc[t] = "exec_read"
  /\ \E r \in {"Ok", "Timeout"} : Return(t, Ret(r))
  /\ lock' = "free"
  /\ UNCHANGED <<sessions, lockq, csess, connected, servedLog>>
  /\ UNCHANGED execVars
  /\ UNCHANGED <<connVars, restVars>>

\* variant of DiscAcquire: the entry is removed under the lock and the guard
\* is dropped before the channel is closed
DiscAcquire_unlocked(t) ==
  /\ CanAcquire(t)
  /\ cop[t].op = "disconnect"
  /\ lockq' = Tail(lockq)
  /\ LET a == cop[t].alias IN
     /\ connected' = connected \ {a}
     /\ servedLog' = [servedLog EXCEPT ![a] = <<>>]
     /\ IF a \in Keys
          THEN /\ sessions' = [sessions EXCEPT ![a] = NoSession]
               /\ csess' = [csess EXCEPT ![t] = sessions[a]]
               /\ cpc' = [cpc EXCEPT ![t] = "disc_close"]
               /\ UNCHANGED <<cret, cop>>
          ELSE /\ Return(t, Ret("Ok"))
               /\ UNCHANGED <<sessions, csess>>
  /\ UNCHANGED lock
  /\ UNCHANGED execVars
  /\ UNCHANGED <<connVars, restVars>>

\* variant of DiscAcquire: a missing alias is reported as an error, as
\* execute_command reports it
DiscAcquire_strict(t) ==
  /\ CanAcquire(t)
  /\ cop[t].op = "disconnect"
  /\ lockq' = Tail(lockq)
  /\ LET a == cop[t].alias IN
     /\ connected' = connected \ {a}
     /\ servedLog' = [servedLog EXCEPT ![a] = <<>>]
     /\ IF a \in Keys
          THEN /\ sessions' = [sessions EXCEPT ![a] = NoSession]
               /\ csess' = [csess EXCEPT ![t] = sessions[a]]
               /\ lock' = t
               /\ cpc' = [cpc EXCEPT ![t] = "disc_close"]
               /\ UNCHANGED <<cret, cop>>
          ELSE /\ Return(t, Ret("NotConnected"))
               /\ UNCHANGED <<sessions, csess, lock>>
  /\ UNCHANGED execVars
  /\ UNCHANGED <<connVars, restVars>>

\* session.rs lines 347-348: lock, sessions.remove(host_alias)
DiscAcquire(t) ==
  /\ CanAcquire(t)
  /\ cop[t].op = "disconnect"
  /\ lockq' = Tail(lockq)
  /\ LET a == cop[t].alias IN
     /\ connected' = connected \ {a}
     /\ servedLog' = [servedLog EXCEPT ![a] = <<>>]
     /\ IF a \in Keys
          THEN /\ sessions' = [sessions EXCEPT ![a] = NoSession]
               /\ csess' = [csess EXCEPT ![t] = sessions[a]]
               /\ lock' = t
               /\ cpc' = [cpc EXCEPT ![t] = "disc_close"]
               /\ UNCHANGED <<cret, cop>>
          ELSE /\ Return(t, Ret("Ok"))
               /\ UNCHANGED <<sessions, csess, lock>>
  /\ UNCHANGED execVars
  /\ UNCHANGED <<connVars, restVars>>

\* variant of DiscClose: a session whose channel cannot be closed is put
\* back into the map
DiscClose_putback(t) ==
  /\ cpc[t] = "disc_close"
  /\ \/ /\ csess' = [csess EXCEPT ![t].closed = TRUE]
        /\ cpc' = [cpc EXCEPT ![t] = "disc_goodbye"]
        /\ UNCHANGED <<sessions, lock, cret, cop>>
     \/ /\ Return(t, Ret("IoError"))
        /\ sessions' = [sessions EXCEPT ![cop[t].alias] = csess[t]]
        /\ csess' = [csess EXCEPT ![t] = NoSession]
        /\ lock' = "free"
  /\ UNCHANGED <<lockq, connected, servedLog>>
  /\ UNCHANGED execVars
  /\ UNCHANGED <<connVars, restVars>>

\* variant of DiscClose: a failure to close the channel is swallowed and
\* the call returns Ok at once
DiscClose_ignore(t) ==
  /\ cpc[t] = "disc_close"
  /\ \/ /\ csess' = [csess EXCEPT ![t].closed = TRUE]
        /\ cpc' = [cpc EXCEPT ![t] = "disc_goodbye"]
        /\ UNCHANGED <<lock, cret, cop>>
     \/ /\ Return(t, Ret("Ok"))
        /\ csess' = [csess EXCEPT ![t] = NoSession]
        /\ lock' = "free"
  /\ UNCHANGED <<sessions, lockq, connected, servedLog>>
  /\ UNCHANGED execVars
  /\ UNCHANGED <<connVars, restVars>>

\* session.rs line 349: state.channel.close().await?
DiscClose(t) ==
  /\ cpc[t] = "disc_close"
  /\ \/ /\ csess' = [csess EXCEPT ![t].closed = TRUE]
        /\ cpc' = [cpc EXCEPT ![t] = "disc_goodbye"]
        /\ UNCHANGED <<lock, cret, cop>>
     \/ /\ Return(t, Ret("IoError"))
        /\ csess' = [csess EXCEPT ![t] = NoSession]
        /\ lock' = "free"
  /\ UNCHANGED <<sessions, lockq, connected, servedLog>>
  /\ UNCHANGED execVars
  /\ UNCHANGED <<connVars, restVars>>

\* session.rs lines 350-352: state.session.disconnect(None, "Goodbye", None).await?
DiscGoodbye(t) ==
  /\ cpc[t] = "disc_goodbye"
  /\ \E r \in {"Ok", "IoError"} : Return(t, Ret(r))
  /\ csess' = [csess EXCEPT ![t] = NoSession]
  /\ lock' = "free"
  /\ UNCHANGED <<sessions, lockq, connected, servedLog>>
  /\ UNCHANGED execVars
  /\ UNCHANGED <<connVars, restVars>>

\* session.rs lines 313-316: lock, contains_key
IsConnected(t) ==
  /\ CanAcquire(t)
  /\ cop[t].op = "is_connected"
  /\ lockq' = Tail(lockq)
  /\ Return(t, Ret(IF cop[t].alias \in Keys THEN "true" ELSE "false"))
  /\ UNCHANGED <<sessions, lock, csess, connected, servedLog>>
  /\ UNCHANGED execVars
  /\ UNCHANGED <<connVars, restVars>>

\* session.rs lines 356-359: lock, keys().cloned().collect()
ListConnections(t) ==
  /\ CanAcquire(t)
  /\ cop[t].op = "list_connections"
  /\ lockq' = Tail(lockq)
  /\ Return(t, [val |-> "Keys", keys |-> Keys])
  /\ UNCHANGED <<sessions, lock, csess, connected, servedLog>>
  /\ UNCHANGED execVars
  /\ UNCHANGED <<connVars, restVars>>

Next ==
  \E t \in Tasks :
    \/ Call(t)
    \/ ConnectFail(t)
    \/ ConnectEstablished(t)
    \/ ConnectInsert(t)
    \/ ExecAcquire(t)
    \/ ExecChannelWrite(t)
    \/ ExecReturn(t)
    \/ DiscAcquire(t)
    \/ DiscClose(t)
    \/ DiscGoodbye(t)
    \/ IsConnected(t)
    \/ ListConnections(t)

\* connect_direct's SshHostConfig, session.rs lines 244-253
DirectConfig ==
  [hostname |-> TRUE, user |-> TRUE, identity_file |-> "none", identities_only |-> FALSE]

\* no connect call of the establisher model is running
ConnIdle ==
  /\ cn_pc = "idle"
  /\ host_alias = "a"
  /\ method = "none"
  /\ config = DirectConfig
  /\ files = {}
  /\ calls = <<>>
  /\ authenticated = FALSE
  /\ session_authenticated = FALSE
  /\ key_index = 1
  /\ cn_ret = "none"

----------------------------------------------------------------------------
(* The host resolver, src/ssh/config.rs.  A line is a sequence of          *)
(* characters, a file a sequence of lines (what content.lines() yields),   *)
(* a path a sequence of characters and whole path components.              *)

Uppers == <<"A", "B", "C", "D", "E", "F", "G", "H", "I", "J", "K", "L", "M",
            "N", "O", "P", "Q", "R", "S", "T", "U", "V", "W", "X", "Y", "Z">>
Lowers == <<"a", "b", "c", "d", "e", "f", "g", "h", "i", "j", "k", "l", "m",
            "n", "o", "p", "q", "r", "s", "t", "u", "v", "w", "x", "y", "z">>

\* str::to_lowercase, character by character
to_lowercase(s) ==
  [i \in 1..Len(s) |->
     IF \E k \in 1..Len(Uppers) : Uppers[k] = s[i]
       THEN Lowers[CHOOSE k \in 1..Len(Uppers) : Uppers[k] = s[i]]
       ELSE s[i]]

to_uppercase(s) ==
  [i \in 1..Len(s) |->
     IF \E k \in 1..Len(Lowers) : Lowers[k] = s[i]
       THEN Uppers[CHOOSE k \in 1..Len(Lowers) : Lowers[k] = s[i]]
       ELSE s[i]]

RECURSIVE trim_start(_)
trim_start(s) ==
  IF s # <<>> /\ s[1] \in Whitespace THEN trim_start(Tail(s)) ELSE s

\* str::trim
trim(s) == trim_start(trim_end(s))

\* str::starts_with
starts_with(s, prefix) == MatchAt(s, prefix, 1)

\* str::ends_with
ends_with(s, suffix) == MatchAt(s, suffix, Len(s) - Len(suffix) + 1)

\* str::split_whitespace: the maximal runs of characters that are not
\* whitespace
RECURSIVE split_whitespace(_)
split_whitespace(s) ==
  LET t == trim_start(s)
      ws == {i \in 1..Len(t) : t[i] \in Whitespace}
      n == IF ws = {} THEN Len(t) ELSE (CHOOSE i \in ws : \A j \in ws : i <= j) - 1
  IN  IF t = <<>> THEN <<>>
      ELSE <<Take(t, n)>> \o split_whitespace(Drop(t, n))

\* the keywords as they are usually written
KwHost == <<"H", "o", "s", "t">>
KwHostName == <<"H", "o", "s", "t", "N", "a", "m", "e">>
KwUser == <<"U", "s", "e", "r">>
KwPort == <<"P", "o", "r", "t">>
KwIdentityFile == <<"I", "d", "e", "n", "t", "i", "t", "y", "F", "i", "l", "e">>
KwProxyCommand == <<"P", "r", "o", "x", "y", "C", "o", "m", "m", "a", "n", "d">>
KwProxyUseFdpass ==
  <<"P", "r", "o", "x", "y", "U", "s", "e", "F", "d", "p", "a", "s", "s">>
KwIdentitiesOnly ==
  <<"I", "d", "e", "n", "t", "i", "t", "i", "e", "s", "O", "n", "l", "y">>
KwInclude == <<"I", "n", "c", "l", "u", "d", "e">>

\* the literal a lowercased line is compared to: "host ", "hostname ", ...
Pattern(kw) == to_lowercase(kw) \o <<" ">>

\* the literal "Include " of lines 31 and 72
IncludePrefix == KwInclude \o <<" ">>

\* $HOME
Home == <<"/home">>

\* PathBuf::join
Join(dir, name) == dir \o <<"/">> \o name

\* line 98: $HOME/.ssh/config
ConfigPath == Join(Home, <<".ssh/config">>)

\* lines 20-28
expand_path(path_str) ==
  IF starts_with(path_str, <<"~", "/">>) THEN Join(Home, Drop(path_str, 2))
  ELSE IF path_str = <<"~">> THEN Home
  ELSE path_str

\* lines 30-46: the paths of an Include line that exist, in order
parse_include_directive(line, fsys) ==
  IF ~starts_with(line, IncludePrefix) THEN <<>>
  ELSE LET args == split_whitespace(trim(Drop(line, 8)))
           expanded == [i \in 1..Len(args) |-> expand_path(args[i])]
       IN  SelectSeq(expanded, LAMBDA q : q \in DOMAIN fsys)

\* variant of already_visited: the visited set is never consulted
already_visited_never(path, visited) == FALSE

\* lines 49-51: visited.contains(path)
already_visited(path, visited) == path \in visited

\* one activation of read_config_file: the lines not yet looked at, the
\* paths of the current Include line not yet read, result and includes
Frame(path, fsys) ==
  [path |-> path, rest |-> fsys[path], targets |-> <<>>,
   result |-> <<>>, includes |-> <<>>]

\* lines 107-109: the call read_config_file(config_path, home, {})
StartRead(fsys) ==
  [stack |-> <<Frame(ConfigPath, fsys)>>, visited |-> {ConfigPath},
   content |-> <<>>, done |-> FALSE]

\* lines 48-94, one step of the topmost activation: the next path of an
\* Include line is read (or found visited), or the next line is looked at,
\* or the activation returns its includes followed by its own lines
ReadStep(fsys, m) ==
  LET n == Len(m.stack)
      top == m.stack[n]
  IN  IF top.targets # <<>> THEN
        LET t == Head(top.targets)
            popped == [m.stack EXCEPT ![n].targets = Tail(top.targets)]
        IN  IF already_visited(t, m.visited)
              THEN [m EXCEPT !.stack = popped]
              ELSE [m EXCEPT !.stack = Append(popped, Frame(t, fsys)),
                             !.visited = @ \cup {t}]
      ELSE IF top.rest # <<>> THEN
        LET line == Head(top.rest)
            trimmed == trim(line)
            next == [top EXCEPT !.rest = Tail(top.rest)]
        IN  IF trimmed = <<>> \/ trimmed[1] = "#"
              THEN [m EXCEPT !.stack[n] = [next EXCEPT !.result = Append(@, line)]]
            ELSE IF starts_with(trimmed, IncludePrefix)
              THEN [m EXCEPT !.stack[n] =
                      [next EXCEPT !.targets = parse_include_directive(trimmed, fsys)]]
            ELSE [m EXCEPT !.stack[n] = [next EXCEPT !.result = Append(@, line)]]
      ELSE
        LET final_content == top.includes \o top.result
        IN  IF n = 1
              THEN [m EXCEPT !.stack = <<>>, !.content = final_content, !.done = TRUE]
              ELSE [m EXCEPT !.stack =
                      [SubSeq(m.stack, 1, n - 1) EXCEPT ![n - 1].includes =
                          @ \o final_content]]

\* read_config_file run to its return
RECURSIVE ReadAll(_, _)
ReadAll(fsys, m) == IF m.done THEN m.content ELSE ReadAll(fsys, ReadStep(fsys, m))

\* Option::None of a String or PathBuf field
None == <<>>

\* Option::None of the port field (a u16 is never negative)
NoPort == 0 - 1

Digits == <<"0", "1", "2", "3", "4", "5", "6", "7", "8", "9">>

IsDigit(c) == \E k \in 1..Len(Digits) : Digits[k] = c

DigitValue(c) == (CHOOSE k \in 1..Len(Digits) : Digits[k] = c) - 1

RECURSIVE DecimalValue(_)
DecimalValue(ds) ==
  IF ds = <<>> THEN 0
  ELSE 10 * DecimalValue(SubSeq(ds, 1, Len(ds) - 1)) + DigitValue(ds[Len(ds)])

\* the largest u16
U16Max == 65535

\* str::parse::<u16>: an optional plus sign and at least one digit, the value
\* no more than 65535; NoPort stands for Err
parse_u16(v) ==
  LET ds == IF v # <<>> /\ v[1] = "+" THEN Tail(v) ELSE v
  IN  IF ds = <<>> \/ \E i \in 1..Len(ds) : ~IsDigit(ds[i]) THEN NoPort
      ELSE IF DecimalValue(ds) > U16Max THEN NoPort
      ELSE DecimalValue(ds)

\* lines 128-140: the SshHostConfig a Host line creates
EmptyConfig(host) ==
  [host |-> host, hostname |-> None, user |-> None, port |-> NoPort,
   identity_file |-> None, proxy_command |-> None,
   proxy_use_fdpass |-> FALSE, identities_only |-> FALSE]

\* lines 171 and 174: value == "yes" || value == "true" || value == "1"
IsTrue(v) ==
  to_lowercase(v) \in {<<"y", "e", "s">>, <<"t", "r", "u", "e">>, <<"1">>}

Quotes == {"\"", "'"}

\* lines 115-186, the body of the loop for one line.  st is current_host,
\* hosts and whether the thread has panicked (line 162 slices cmd[1..len-1],
\* which panics when cmd is one character long).
ParseLine(st, raw) ==
  LET line == trim(raw)
      lower == to_lowercase(line)
      h == st.current_host
  IN  IF st.panicked THEN st
      ELSE IF line = <<>> \/ line[1] = "#" THEN st
      ELSE IF starts_with(line, IncludePrefix) THEN st
      ELSE IF starts_with(lower, Pattern(KwHost)) THEN
        LET host == trim(Drop(line, 5))
        IN  IF host = <<>> THEN st
            ELSE [st EXCEPT !.current_host = host,
                            !.hosts = IF host \in DOMAIN @ THEN @
                                      ELSE (host :> EmptyConfig(host)) @@ @]
      ELSE IF h = None \/ h \notin DOMAIN st.hosts THEN st
      ELSE IF starts_with(lower, Pattern(KwHostName)) THEN
        [st EXCEPT !.hosts[h].hostname = trim(Drop(line, 9))]
      ELSE IF starts_with(lower, Pattern(KwUser)) THEN
        [st EXCEPT !.hosts[h].user = trim(Drop(line, 5))]
      ELSE IF starts_with(lower, Pattern(KwPort)) THEN
        IF parse_u16(trim(Drop(line, 5))) # NoPort
          THEN [st EXCEPT !.hosts[h].port = parse_u16(trim(Drop(line, 5)))]
          ELSE st
      ELSE IF starts_with(lower, Pattern(KwIdentityFile)) THEN
        [st EXCEPT !.hosts[h].identity_file = expand_path(trim(Drop(line, 13)))]
      ELSE IF starts_with(lower, Pattern(KwProxyCommand)) THEN
        LET cmd == trim(Drop(line, 13))
        IN  IF \E q \in Quotes : starts_with(cmd, <<q>>) /\ ends_with(cmd, <<q>>)
              THEN IF Len(cmd) < 2 THEN [st EXCEPT !.panicked = TRUE]
                   ELSE [st EXCEPT !.hosts[h].proxy_command =
                                      SubSeq(cmd, 2, Len(cmd) - 1)]
              ELSE [st EXCEPT !.hosts[h].proxy_command = cmd]
      ELSE IF starts_with(lower, Pattern(KwProxyUseFdpass)) THEN
        [st EXCEPT !.hosts[h].proxy_use_fdpass = IsTrue(trim(Drop(line, 15)))]
      ELSE IF starts_with(lower, Pattern(KwIdentitiesOnly)) THEN
        [st EXCEPT !.hosts[h].identities_only = IsTrue(trim(Drop(line, 15)))]
      ELSE st

\* lines 110-111: current_host = None, hosts = HashMap::new()
StartParse == [current_host |-> None, hosts |-> <<>>, panicked |-> FALSE]

\* lines 115-186: the loop over content.lines()
RECURSIVE ParseLines(_, _)
ParseLines(st, lines) ==
  IF lines = <<>> THEN st ELSE ParseLines(ParseLine(st, Head(lines)), Tail(lines))

\* line 203: host_pattern.replace("*", ".*")
RECURSIVE replace_star(_)
replace_star(pattern) ==
  IF pattern = <<>> THEN <<>>
  ELSE (IF Head(pattern) = "*" THEN <<".", "*">> ELSE <<Head(pattern)>>)
         \o replace_star(Tail(pattern))

\* lines 204-205: Regex::new("^" + re + "$").is_match(alias), for the
\* expressions replace_star yields: . is any character, .* any string
RECURSIVE is_match(_, _)
is_match(re, str) ==
  IF re = <<>> THEN str = <<>>
  ELSE IF Len(re) >= 2 /\ re[1] = "." /\ re[2] = "*"
    THEN \/ is_match(Drop(re, 2), str)
         \/ str # <<>> /\ is_match(re, Tail(str))
  ELSE /\ str # <<>>
       /\ re[1] = "." \/ re[1] = str[1]
       /\ is_match(Tail(re), Tail(str))

\* lines 201-208: the patterns whose config the loop can return; HashMap
\* iteration visits them in an order the program does not control
Matching(hosts, alias) ==
  {pat \in DOMAIN hosts : Contains(pat, <<"*">>) /\ is_match(replace_star(pat), alias)}

NotFound == [host |-> <<"Host not found in SSH config">>]

Panicked == [host |-> <<"panicked">>]

ConfigMissing == [host |-> <<"SSH config file not found">>]

\* variant of Resolve: the patterns are consulted before the exact entry
Resolve_patterns_first(hosts, alias) ==
  IF Matching(hosts, alias) # {} THEN {hosts[pat] : pat \in Matching(hosts, alias)}
  ELSE IF alias \in DOMAIN hosts THEN {hosts[alias]}
  ELSE {NotFound}

\* lines 190-211: what parse_ssh_config can return for the parsed hosts
Resolve(hosts, alias) ==
  IF alias \in DOMAIN hosts THEN {hosts[alias]}
  ELSE IF Matching(hosts, alias) # {} THEN {hosts[pat] : pat \in Matching(hosts, alias)}
  ELSE {NotFound}

\* parse_ssh_config as a function of the files and the alias
Resolutions(fsys, alias) ==
  LET st == ParseLines(StartParse, ReadAll(fsys, StartRead(fsys)))
  IN  IF ConfigPath \notin DOMAIN fsys THEN {ConfigMissing}
      ELSE IF st.panicked THEN {Panicked}
      ELSE Resolve(st.hosts, alias)

\* what cfg_result holds before the call has returned
NoResolution == [host |-> <<"none">>]

\* no parse_ssh_config call is modelled
CfgIdle ==
  /\ fs = <<>>
  /\ cfg_alias = <<>>
  /\ cfg_pc = "idle"
  /\ rd = [stack |-> <<>>, visited |-> {}, content |-> <<>>, done |-> FALSE]
  /\ parsed = StartParse
  /\ cfg_result = NoResolution

\* no process is modelled around the SessionManager
ProcIdle ==
  /\ mode = "none"
  /\ ppc = "idle"
  /\ current_host = "none"
  /\ gone = {}
  /\ eof = FALSE

\* no result is handed to the tool layer
ToolIdle ==
  /\ exec_kind = "none"
  /\ output = [stdout |-> <<>>, stderr |-> <<>>]
  /\ tl_pc = "idle"
  /\ rendered = <<>>
  /\ run_result = [kind |-> "none", text |-> <<>>]
  /\ log_result = [kind |-> "none", text |-> <<>>]

RestIdle == ProcIdle /\ CfgIdle /\ ToolIdle

Init == InitReg /\ ExecIdle /\ ConnIdle /\ RestIdle

\* a call on a fresh channel, the SessionManager untouched
InitChannel == InitExec /\ InitReg /\ ConnIdle /\ RestIdle

Spec == Init /\ [][Next]_vars

\* one execute_command of one channel against each remote behaviour
SpecExec == InitChannel /\ [][NextExec]_vars

\* two execute_command calls, one after the other, on one channel
SpecSeq == InitChannel /\ [][NextSeq]_vars

----------------------------------------------------------------------------
(* The session establisher: connect_by_alias, connect_direct and           *)
(* connect_with_password of src/ssh/session.rs, one call, step by step     *)

\* session.rs lines 139-144: key_paths, in the order they are tried
KeyPaths == <<"id_ed25519", "id_rsa", "id_ecdsa", "id_dsa">>

KeyFiles == {KeyPaths[i] : i \in 1..Len(KeyPaths)}

\* the SshHostConfig values parse_ssh_config can return (the proxy fields
\* are not acted on)
Configs ==
  [hostname : BOOLEAN, user : BOOLEAN, identity_file : {"none", "identity"},
   identities_only : BOOLEAN]

\* what a userauth_* call can do: the Result it returns and what
\* session.authenticated() reports afterwards
AuthOutcomes ==
  { [ok |-> TRUE, auth |-> TRUE], [ok |-> TRUE, auth |-> FALSE],
    [ok |-> FALSE, auth |-> FALSE] }

\* a session that has run a command
UsedSession == [NewSession EXCEPT !.written = <<CommandOf["t1"]>>]

\* the map before the call: empty, or one alias connected
InitSessions ==
  { [a \in Aliases |-> NoSession] } \cup
  { [a \in Aliases |-> IF a = b THEN UsedSession ELSE NoSession] : b \in Aliases }

\* the call and its environment
InitConn ==
  /\ host_alias = "a"
  /\ method \in ConnectOps
  /\ config \in (IF method = "connect_by_alias" THEN Configs ELSE {DirectConfig})
  /\ files \in (IF method = "connect_with_password" THEN {{}}
                ELSE SUBSET (KeyFiles \cup {"identity"}))
  /\ cn_pc = (IF method = "connect_by_alias" THEN "parse"
              ELSE IF method = "connect_direct" THEN "fields" ELSE "lookup")
  /\ calls = <<>>
  /\ authenticated = FALSE
  /\ session_authenticated = FALSE
  /\ key_index = 1
  /\ cn_ret = "none"

\* the SessionManager as the call finds it, nobody else using it
InitConnect ==
  /\ InitConn
  /\ ExecIdle
  /\ RestIdle
  /\ sessions \in InitSessions
  /\ lock = "free"
  /\ lockq = <<>>
  /\ cpc = [t \in Tasks |-> "idle"]
  /\ cop = [t \in Tasks |-> NoCall]
  /\ cret = [t \in Tasks |-> Ret("none")]
  /\ csess = [t \in Tasks |-> NoSession]
  /\ connected = Keys
  /\ servedLog = [a \in Aliases |-> sessions[a].written]

\* the call returns the error e: `?` or bail!
Bail(e) ==
  /\ cn_pc' = "done"
  /\ cn_ret' = e

\* a library call on the new session is recorded with its result
Called(name, ok) == calls' = Append(calls, <<name, ok>>)

\* session.rs line 34: parse_ssh_config(host_alias)?
ConnParse ==
  /\ cn_pc = "parse"
  /\ \/ Bail("Host not found in SSH config")
     \/ cn_pc' = "fields" /\ UNCHANGED cn_ret
  /\ UNCHANGED <<host_alias, method, config, files, calls, authenticated,
                 session_authenticated, key_index>>
  /\ UNCHANGED <<execVars, regVars, restVars>>

\* variant of ConnFields: the fields are looked at only after the address
\* lookup and the TCP connect
ConnFields_late ==
  /\ cn_pc = "fields"
  /\ IF ~config.hostname \/ ~config.user
       THEN /\ calls' = calls \o << <<"lookup_host", TRUE>>, <<"connect", TRUE>> >>
            /\ Bail(IF ~config.hostname THEN "Hostname not specified"
                    ELSE "User not specified")
       ELSE cn_pc' = "lookup" /\ UNCHANGED <<cn_ret, calls>>
  /\ UNCHANGED <<host_alias, method, config, files, authenticated,
                 session_authenticated, key_index>>
  /\ UNCHANGED <<execVars, regVars, restVars>>

\* session.rs lines 43-51: hostname and user are required
ConnFields ==
  /\ cn_pc = "fields"
  /\ IF ~config.hostname THEN Bail("Hostname not specified")
     ELSE IF ~config.user THEN Bail("User not specified")
     ELSE cn_pc' = "lookup" /\ UNCHANGED cn_ret
  /\ UNCHANGED <<host_alias, method, config, files, calls, authenticated,
                 session_authenticated, key_index>>
  /\ UNCHANGED <<execVars, regVars, restVars>>

\* session.rs lines 58-62 and 266-270: lookup_host, first address
ConnLookup ==
  /\ cn_pc = "lookup"
  /\ \/ Called("lookup_host", FALSE) /\ Bail("Failed to resolve hostname")
     \/ Called("lookup_host", TRUE) /\ cn_pc' = "tcp" /\ UNCHANGED cn_ret
  /\ UNCHANGED <<host_alias, method, config, files, authenticated,
                 session_authenticated, key_index>>
  /\ UNCHANGED <<execVars, regVars, restVars>>

\* session.rs lines 64-66 and 272-274: AsyncSession::connect
ConnTcp ==
  /\ cn_pc = "tcp"
  /\ \/ Called("connect", FALSE) /\ Bail("Failed to connect")
     \/ Called("connect", TRUE) /\ cn_pc' = "handshake" /\ UNCHANGED cn_ret
  /\ UNCHANGED <<host_alias, method, config, files, authenticated,
                 session_authenticated, key_index>>
  /\ UNCHANGED <<execVars, regVars, restVars>>

\* session.rs lines 68 and 276: session.handshake
ConnHandshake ==
  /\ cn_pc = "handshake"
  /\ \/ Called("handshake", FALSE) /\ Bail("SSH handshake failed")
     \/ /\ Called("handshake", TRUE)
        /\ cn_pc' = (IF method = "connect_with_password" THEN "password" ELSE "agent")
        /\ UNCHANGED cn_ret
  /\ UNCHANGED <<host_alias, method, config, files, authenticated,
                 session_authenticated, key_index>>
  /\ UNCHANGED <<execVars, regVars, restVars>>

\* the error of session.rs lines 130-134, which names the identity file
KeyAuthError == "Authentication failed with identity file"

\* variant of ConnAgent: the agent is tried whatever identities_only says
ConnAgent_always ==
  /\ cn_pc = "agent"
  /\ \E r \in AuthOutcomes :
       /\ Called("userauth_agent", r.ok)
       /\ session_authenticated' = r.auth
       /\ authenticated' = (r.ok /\ r.auth)
  /\ cn_pc' = "identity"
  /\ UNCHANGED <<host_alias, method, config, files, key_index, cn_ret>>
  /\ UNCHANGED <<execVars, regVars, restVars>>

\* session.rs lines 70-89: the agent, unless IdentitiesOnly is set
ConnAgent ==
  /\ cn_pc = "agent"
  /\ IF ~config.identities_only
       THEN \E r \in AuthOutcomes :
              /\ Called("userauth_agent", r.ok)
              /\ session_authenticated' = r.auth
              /\ authenticated' = (r.ok /\ r.auth)
       ELSE UNCHANGED <<calls, session_authenticated, authenticated>>
  /\ cn_pc' = "identity"
  /\ UNCHANGED <<host_alias, method, config, files, key_index, cn_ret>>
  /\ UNCHANGED <<execVars, regVars, restVars>>

\* session.rs lines 91-137 and 169-172: the explicit identity file, or the
\* choice of the branch that follows
ConnIdentity ==
  /\ cn_pc = "identity"
  /\ IF authenticated
       THEN /\ cn_pc' = "check"
            /\ UNCHANGED <<calls, session_authenticated, authenticated, cn_ret>>
     ELSE IF config.identity_file # "none"
       THEN IF config.identity_file \notin files
              THEN /\ Bail("Identity file not found")
                   /\ UNCHANGED <<calls, session_authenticated, authenticated>>
              ELSE \E r \in AuthOutcomes :
                     /\ Called("userauth_pubkey_file:" \o config.identity_file, r.ok)
                     /\ session_authenticated' = r.auth
                     /\ IF r.ok
                          THEN /\ authenticated' = r.auth
                               /\ cn_pc' = "check"
                               /\ UNCHANGED cn_ret
                          ELSE /\ Bail(KeyAuthError)
                               /\ UNCHANGED authenticated
     ELSE /\ cn_pc' = (IF ~config.identities_only THEN "common" ELSE "check")
          /\ UNCHANGED <<calls, session_authenticated, authenticated, cn_ret>>
  /\ UNCHANGED <<host_alias, method, config, files, key_index>>
  /\ UNCHANGED <<execVars, regVars, restVars>>

\* variant of ConnCommon: the loop has no break, the remaining key files are
\* tried after one has authenticated
ConnCommon_nobreak ==
  /\ cn_pc = "common"
  /\ IF key_index > Len(KeyPaths)
       THEN /\ cn_pc' = "check"
            /\ UNCHANGED <<calls, session_authenticated, authenticated, key_index>>
     ELSE /\ key_index' = key_index + 1
          /\ UNCHANGED cn_pc
          /\ IF KeyPaths[key_index] \in files
               THEN \E r \in AuthOutcomes :
                      /\ Called("userauth_pubkey_file:" \o KeyPaths[key_index], r.ok)
                      /\ session_authenticated' = (session_authenticated \/ r.auth)
                      /\ authenticated' = (authenticated \/ (r.ok /\ r.auth))
               ELSE UNCHANGED <<calls, session_authenticated, authenticated>>
  /\ UNCHANGED <<host_alias, method, config, files, cn_ret>>
  /\ UNCHANGED <<execVars, regVars, restVars>>

\* session.rs lines 137-168: one iteration of the loop over key_paths
ConnCommon ==
  /\ cn_pc = "common"
  /\ IF key_index > Len(KeyPaths)
       THEN /\ cn_pc' = "check"
            /\ UNCHANGED <<calls, session_authenticated, authenticated, key_index>>
     ELSE IF KeyPaths[key_index] \in files
       THEN \E r \in AuthOutcomes :
              /\ Called("userauth_pubkey_file:" \o KeyPaths[key_index], r.ok)
              /\ session_authenticated' = r.auth
              /\ IF r.ok /\ r.auth
                   THEN /\ authenticated' = TRUE
                        /\ cn_pc' = "check"
                        /\ UNCHANGED key_index
                   ELSE /\ key_index' = key_index + 1
                        /\ UNCHANGED <<cn_pc, authenticated>>
     ELSE /\ key_index' = key_index + 1
          /\ UNCHANGED <<cn_pc, calls, session_authenticated, authenticated>>
  /\ UNCHANGED <<host_alias, method, config, files, cn_ret>>
  /\ UNCHANGED <<execVars, regVars, restVars>>

\* the message of session.rs line 175, the error of an exhausted ladder
AuthExhausted == "SSH key authentication failed."

\* variant of ConnAuthCheck: the result of the ladder is not looked at
ConnAuthCheck_none ==
  /\ cn_pc = "check"
  /\ cn_pc' = "channel"
  /\ UNCHANGED <<host_alias, method, config, files, calls, authenticated,
                 session_authenticated, key_index, cn_ret>>
  /\ UNCHANGED <<execVars, regVars, restVars>>

\* session.rs lines 174-210: no branch authenticated, or the session says no
ConnAuthCheck ==
  /\ cn_pc = "check"
  /\ IF ~authenticated THEN Bail(AuthExhausted)
     ELSE IF ~session_authenticated THEN Bail("Authentication failed for user@host")
     ELSE cn_pc' = "channel" /\ UNCHANGED cn_ret
  /\ UNCHANGED <<host_alias, method, config, files, calls, authenticated,
                 session_authenticated, key_index>>
  /\ UNCHANGED <<execVars, regVars, restVars>>

\* session.rs lines 278-285: userauth_password, then authenticated()
ConnPassword ==
  /\ cn_pc = "password"
  /\ \E r \in AuthOutcomes :
       /\ Called("userauth_password", r.ok)
       /\ session_authenticated' = r.auth
       /\ IF ~r.ok THEN Bail("Password authentication failed")
          ELSE IF ~r.auth THEN Bail("Authentication failed for user@host")
          ELSE cn_pc' = "channel" /\ UNCHANGED cn_ret
  /\ UNCHANGED <<host_alias, method, config, files, authenticated, key_index>>
  /\ UNCHANGED <<execVars, regVars, restVars>>

\* session.rs lines 212-215 and 287-290: session.channel_session
ConnChannel ==
  /\ cn_pc = "channel"
  /\ \/ Called("channel_session", FALSE) /\ Bail("Failed to open channel")
     \/ Called("channel_session", TRUE) /\ cn_pc' = "pty" /\ UNCHANGED cn_ret
  /\ UNCHANGED <<host_alias, method, config, files, authenticated,
                 session_authenticated, key_index>>
  /\ UNCHANGED <<execVars, regVars, restVars>>

\* variant of ConnPty: the result of request_pty is dropped
ConnPty_unchecked ==
  /\ cn_pc = "pty"
  /\ \E ok \in BOOLEAN : Called("request_pty:xterm", ok)
  /\ cn_pc' = "shell"
  /\ UNCHANGED <<host_alias, method, config, files, authenticated,
                 session_authenticated, key_index, cn_ret>>
  /\ UNCHANGED <<execVars, regVars, restVars>>

\* session.rs lines 217-220 and 292-295: channel.request_pty("xterm", None, None)
ConnPty ==
  /\ cn_pc = "pty"
  /\ \/ Called("request_pty:xterm", FALSE) /\ Bail("Failed to request PTY")
     \/ Called("request_pty:xterm", TRUE) /\ cn_pc' = "shell" /\ UNCHANGED cn_ret
  /\ UNCHANGED <<host_alias, method, config, files, authenticated,
                 session_authenticated, key_index>>
  /\ UNCHANGED <<execVars, regVars, restVars>>

\* variant of ConnShell: a connect whose shell does not start takes the
\* alias's entry out of the map
ConnShell_evict ==
  /\ cn_pc = "shell"
  /\ \/ /\ Called("shell", FALSE) /\ Bail("Failed to open shell")
        /\ sessions' = [sessions EXCEPT ![host_alias] = NoSession]
        /\ connected' = connected \ {host_alias}
     \/ /\ Called("shell", TRUE) /\ cn_pc' = "insert"
        /\ UNCHANGED <<cn_ret, sessions, connected>>
  /\ UNCHANGED <<host_alias, method, config, files, authenticated,
                 session_authenticated, key_index>>
  /\ UNCHANGED <<lock, lockq, cpc, cop, cret, csess, servedLog>>
  /\ UNCHANGED <<execVars, restVars>>

\* session.rs lines 222 and 297: channel.shell
ConnShell ==
  /\ cn_pc = "shell"
  /\ \/ Called("shell", FALSE) /\ Bail("Failed to open shell")
     \/ Called("shell", TRUE) /\ cn_pc' = "insert" /\ UNCHANGED cn_ret
  /\ UNCHANGED <<host_alias, method, config, files, authenticated,
                 session_authenticated, key_index>>
  /\ UNCHANGED <<execVars, regVars, restVars>>

\* session.rs lines 224-234 and 299-309: SessionState, lock, insert, Ok(())
ConnInsert ==
  /\ cn_pc = "insert"
  /\ lock = "free"
  /\ sessions' = [sessions EXCEPT ![host_alias] = NewSession]
  /\ connected' = connected \cup {host_alias}
  /\ servedLog' = [servedLog EXCEPT ![host_alias] = <<>>]
  /\ cn_pc' = "done"
  /\ cn_ret' = "Ok"
  /\ UNCHANGED <<host_alias, method, config, files, calls, authenticated,
                 session_authenticated, key_index>>
  /\ UNCHANGED <<lock, lockq, cpc, cop, cret, csess>>
  /\ UNCHANGED <<execVars, restVars>>

NextConnect ==
  \/ ConnParse
  \/ ConnFields
  \/ ConnLookup
  \/ ConnTcp
  \/ ConnHandshake
  \/ ConnAgent
  \/ ConnIdentity
  \/ ConnCommon
  \/ ConnAuthCheck
  \/ ConnPassword
  \/ ConnChannel
  \/ ConnPty
  \/ ConnShell
  \/ ConnInsert

\* one connect call, from its first line to its return
SpecConnect == InitConnect /\ [][NextConnect]_vars

----------------------------------------------------------------------------
(* The process: the three subcommands of src/main.rs, each around its own  *)
(* SessionManager, from start to exit. The manager's calls are made one at *)
(* a time here; their interleaving is what Spec is about.                  *)

\* main.rs lines 22-54: Serve, Cli, Connect
Modes == {"serve", "cli", "connect"}

\* main.rs line 98: the alias of the legacy mode (and the default of cli.rs
\* line 15)
DirectAlias == "a"

\* what the process leaves untouched in the manager
ProcFrame == UNCHANGED <<lock, lockq, cpc, cop, cret, csess, connected, servedLog>>

\* SessionManager::disconnect(a), session.rs lines 346-353: the entry is
\* removed; close and then the SSH disconnect are tried, the first failure
\* returning the error. c and g tell whether the two succeed.
ProcDisconnect(a, c, g) ==
  /\ sessions' = [sessions EXCEPT ![a] = NoSession]
  /\ gone' = IF sessions[a] = NoSession THEN gone
             ELSE gone \cup {[sessions[a] EXCEPT !.closed = c, !.goodbye = c /\ g]}

\* main.rs lines 94-100, cli.rs lines 14-84, mcp/mod.rs lines 112-119: the
\* connection the process makes before its loop; a failure ends the process
\* with the error
ProcStart ==
  /\ ppc = "start"
  /\ \/ /\ mode = "serve" \/ mode = "cli"
        /\ ppc' = "run"
        /\ UNCHANGED <<sessions, current_host>>
     \/ /\ mode \in {"cli", "connect"}
        /\ \E a \in (IF mode = "connect" THEN {DirectAlias} ELSE Aliases) :
             \/ /\ sessions' = [sessions EXCEPT ![a] = NewSession]
                /\ current_host' = a
                /\ ppc' = "run"
             \/ /\ ppc' = "exited"
                /\ UNCHANGED <<sessions, current_host>>
  /\ UNCHANGED <<mode, eof, gone>>
  /\ ProcFrame
  /\ UNCHANGED <<execVars, connVars, cfgVars, toolVars>>

\* mcp/mod.rs lines 34-43: the ssh_connect tool, connect_by_alias
SrvConnect ==
  /\ ppc = "run" /\ mode = "serve"
  /\ \E a \in Aliases :
       \/ sessions' = [sessions EXCEPT ![a] = NewSession]
       \/ UNCHANGED sessions
  /\ UNCHANGED procVars
  /\ ProcFrame
  /\ UNCHANGED <<execVars, connVars, cfgVars, toolVars>>

\* mcp/mod.rs lines 45-65: ssh_run_command and ssh_read_log write one command
\* line to the alias's channel
SrvRun ==
  /\ ppc = "run" /\ mode = "serve"
  /\ \E a \in Aliases :
       /\ sessions[a] # NoSession
       /\ Len(sessions[a].written) < MaxLog
       /\ sessions' = [sessions EXCEPT ![a].written = Append(@, CommandOf["t1"])]
  /\ UNCHANGED procVars
  /\ ProcFrame
  /\ UNCHANGED <<execVars, connVars, cfgVars, toolVars>>

\* mcp/mod.rs lines 121-141: service.waiting() returns and run_mcp_server
\* returns Ok(()); the server and its SessionManager are dropped
SrvExit ==
  /\ ppc = "run" /\ mode = "serve"
  /\ ppc' = "exited"
  /\ UNCHANGED <<mode, eof, current_host, gone, sessions>>
  /\ ProcFrame
  /\ UNCHANGED <<execVars, connVars, cfgVars, toolVars>>

\* cli.rs lines 117-193: connect <alias>: the current host is disconnected
\* (result ignored), then the connect is tried; current_host changes only
\* when it succeeds
CliConnect ==
  /\ ppc = "run" /\ mode = "cli"
  /\ ~eof
  /\ \E a \in Aliases, c, g, ok \in BOOLEAN :
       LET afterOld == IF current_host = "none" THEN sessions
                       ELSE [sessions EXCEPT ![current_host] = NoSession]
           left == IF current_host = "none" \/ sessions[current_host] = NoSession
                     THEN {}
                     ELSE {[sessions[current_host] EXCEPT !.closed = c,
                                                          !.goodbye = c /\ g]}
       IN /\ gone' = gone \cup left
          /\ IF ok THEN /\ sessions' = [afterOld EXCEPT ![a] = NewSession]
                        /\ current_host' = a
                   ELSE /\ sessions' = afterOld
                        /\ UNCHANGED current_host
  /\ UNCHANGED <<mode, eof, ppc>>
  /\ ProcFrame
  /\ UNCHANGED <<execVars, connVars, cfgVars, toolVars>>

\* cli.rs lines 108-116: disconnect: manager.disconnect(alias).await?, an
\* error ending the process
CliDisconnect ==
  /\ ppc = "run" /\ mode = "cli"
  /\ ~eof
  /\ current_host # "none"
  /\ \E c, g \in BOOLEAN :
       /\ ProcDisconnect(current_host, c, g)
       /\ IF c /\ g THEN current_host' = "none" /\ UNCHANGED ppc
                    ELSE ppc' = "exited" /\ UNCHANGED current_host
  /\ UNCHANGED <<mode, eof>>
  /\ ProcFrame
  /\ UNCHANGED <<execVars, connVars, cfgVars, toolVars>>

\* cli.rs lines 197-217 and main.rs lines 117-134: any other line is executed
\* on the current host
ProcExecute ==
  /\ ppc = "run" /\ mode \in {"cli", "connect"}
  /\ ~eof
  /\ current_host # "none"
  /\ sessions[current_host] # NoSession
  /\ Len(sessions[current_host].written) < MaxLog
  /\ sessions' = [sessions EXCEPT ![current_host].written = Append(@, CommandOf["t1"])]
  /\ UNCHANGED procVars
  /\ ProcFrame
  /\ UNCHANGED <<execVars, connVars, cfgVars, toolVars>>

\* cli.rs lines 102-107: exit | quit: the current host is disconnected, the
\* result ignored; main.rs lines 113-115 and 137: the loop ends and
\* manager.disconnect("direct") is called
ProcExit ==
  /\ ppc = "run" /\ mode \in {"cli", "connect"}
  /\ ~eof
  /\ \E c, g \in BOOLEAN :
       IF current_host = "none" THEN UNCHANGED <<sessions, gone>>
       ELSE ProcDisconnect(current_host, c, g)
  /\ ppc' = "exited"
  /\ UNCHANGED <<mode, eof, current_host>>
  /\ ProcFrame
  /\ UNCHANGED <<execVars, connVars, cfgVars, toolVars>>

\* the terminal or pipe behind standard input is closed
ProcEof ==
  /\ ppc = "run" /\ mode \in {"cli", "connect"}
  /\ ~eof
  /\ eof' = TRUE
  /\ UNCHANGED <<mode, ppc, current_host, gone, sessions>>
  /\ ProcFrame
  /\ UNCHANGED <<execVars, connVars, cfgVars, toolVars>>

\* cli.rs lines 92-98 and main.rs lines 104-110: read_line returns a line
\* that trims to nothing, or Ok(0) at end-of-file, which leaves input empty
ProcReadBlank ==
  /\ ppc = "run" /\ mode \in {"cli", "connect"}
  /\ ppc' = "blank"
  /\ UNCHANGED <<mode, eof, current_host, gone, sessions>>
  /\ ProcFrame
  /\ UNCHANGED <<execVars, connVars, cfgVars, toolVars>>

\* cli.rs lines 96-98 and 85-90, main.rs lines 108-110 and 102-103: continue,
\* and the prompt is printed again
ProcContinue ==
  /\ ppc = "blank"
  /\ ppc' = "run"
  /\ UNCHANGED <<mode, eof, current_host, gone, sessions>>
  /\ ProcFrame
  /\ UNCHANGED <<execVars, connVars, cfgVars, toolVars>>

NextProcess ==
  \/ ProcStart
  \/ SrvConnect
  \/ SrvRun
  \/ SrvExit
  \/ CliConnect
  \/ CliDisconnect
  \/ ProcExecute
  \/ ProcExit
  \/ ProcEof
  \/ ProcReadBlank
  \/ ProcContinue

\* a process of each mode, its SessionManager just created
InitProcess ==
  /\ mode \in Modes
  /\ ppc = "start"
  /\ current_host = "none"
  /\ gone = {}
  /\ eof = FALSE
  /\ InitReg
  /\ ExecIdle
  /\ ConnIdle
  /\ CfgIdle
  /\ ToolIdle

\* one process from its start to its exit
SpecProcess == InitProcess /\ [][NextProcess]_vars

\* the same process, which does not stop while it has a step to take
SpecProcessLive == InitProcess /\ [][NextProcess]_vars /\ WF_vars(NextProcess)

----------------------------------------------------------------------------
(* parse_ssh_config, one call: the files it is run on, and its steps *)

\* a line: keyword, one space, value
Ln(kw, val) == kw \o <<" ">> \o val

\* a keyword as usually written, in lower case and in upper case
Cases(kw) == {kw, to_lowercase(kw), to_uppercase(kw)}

PathX == Join(Home, <<"x">>)
PathY == Join(Home, <<"y">>)

\* what Include lines name: ~/x, ~/y, the config file itself, a path that
\* does not exist, and lists of these
IncludeValues ==
  LET tx == <<"~", "/", "x">>
      ty == <<"~", "/", "y">>
      tc == <<"~", "/", ".ssh/config">>
  IN  {tx, ty, tc, <<"/", "n">>, tx \o <<" ">> \o ty, ty \o <<" ">> \o tx,
       tx \o <<" ">> \o PathX}

\* the lines of the three files apart from their Include line; the first
\* line of each is a comment that names the file
BaseC == << <<"#", "c">>, Ln(KwHost, <<"a">>), Ln(KwHostName, <<"c">>) >>
BaseX == << <<"#", "x">>, Ln(KwHost, <<"a">>), Ln(KwUser, <<"x">>) >>
BaseY == << <<"#", "y">>, Ln(KwHost, <<"b">>), Ln(KwHostName, <<"y">>) >>

\* a file without an Include line, or with one as its first line
WithInclude(base, kws) ==
  {base} \cup {<<Ln(k, v)>> \o base : k \in kws, v \in IncludeValues}

\* files that include each other
IncludeFiles ==
  {(ConfigPath :> c) @@ (PathX :> x) @@ (PathY :> y) :
     c \in WithInclude(BaseC, Cases(KwInclude)),
     x \in WithInclude(BaseX, {KwInclude}),
     y \in WithInclude(BaseY, {KwInclude})}
  \cup
  {(ConfigPath :> c) @@ (PathX :> x) :
     c \in WithInclude(BaseC, Cases(KwInclude)),
     x \in WithInclude(BaseX, {KwInclude})}

PortValues ==
  {<<"2", "2">>, <<"0">>, <<"1">>, <<"6", "5", "5", "3", "5">>,
   <<"6", "5", "5", "3", "6">>, <<"2", "2", "x", "x">>, <<"-", "1">>}

ProxyValues ==
  {<<"x">>, <<"\"", "x", "\"">>, <<"'", "x", "'">>, <<"\"", "x", "'">>,
   <<"'", "x", "\"">>, <<"\"", "x">>, <<"x", "'">>, <<"\"">>, <<"'">>,
   <<"\"", "\"">>, <<"'", "x", "'", " ", "y">>}

BoolValues == {<<"y", "e", "s">>, <<"T", "r", "u", "e">>, <<"1">>, <<"n", "o">>}

\* the lines a Host block is made of
DirectiveLines ==
  {Ln(k, <<"h">>) : k \in Cases(KwHostName)}
    \cup {Ln(k, <<"u">>) : k \in Cases(KwUser)}
    \cup {Ln(k, <<"2", "2">>) : k \in Cases(KwPort)}
    \cup {Ln(KwPort, v) : v \in PortValues}
    \cup {Ln(k, <<"~", "/", "k">>) : k \in Cases(KwIdentityFile)}
    \cup {Ln(k, <<"x">>) : k \in Cases(KwProxyCommand)}
    \cup {Ln(KwProxyCommand, v) : v \in ProxyValues}
    \cup {Ln(k, <<"y", "e", "s">>) : k \in Cases(KwProxyUseFdpass)}
    \cup {Ln(k, <<"y", "e", "s">>) : k \in Cases(KwIdentitiesOnly)}
    \cup {Ln(KwIdentitiesOnly, v) : v \in BoolValues}

\* the line before: it sets the port or the proxy command
FirstLines == {Ln(KwPort, <<"8">>), Ln(KwProxyCommand, <<"y">>)}

\* one Host block of two directives
DirectiveFiles ==
  {(ConfigPath :> <<Ln(k, <<"a">>), d1, d2>>) :
     k \in Cases(KwHost), d1 \in FirstLines, d2 \in DirectiveLines}

HostNames ==
  {<<"a">>, <<"b">>, <<"a", "*">>, <<"*">>, <<"a", ".">>, <<"*", "b">>}

\* two Host blocks, told apart by their HostName
HostFiles ==
  {(ConfigPath :> <<Ln(KwHost, n1), Ln(KwHostName, <<"1">>),
                    Ln(KwHost, n2), Ln(KwHostName, <<"2">>)>>) :
     n1 \in HostNames, n2 \in HostNames}

CfgAliases == {<<"a">>, <<"a", "b">>, <<"b">>, <<"c">>}

\* no config file at all
NoFiles == <<>>

\* the calls that are followed
ConfigInputs ==
  {[fs |-> f, alias |-> <<"a">>] : f \in IncludeFiles \cup DirectiveFiles \cup {NoFiles}}
    \cup {[fs |-> f, alias |-> al] : f \in HostFiles, al \in CfgAliases}

InitCfg ==
  /\ \E in \in ConfigInputs : fs = in.fs /\ cfg_alias = in.alias
  /\ cfg_pc = "start"
  /\ rd = [stack |-> <<>>, visited |-> {}, content |-> <<>>, done |-> FALSE]
  /\ parsed = StartParse
  /\ cfg_result = NoResolution

\* lines 97-109: the config file must exist; read_config_file is called
CfgStart ==
  /\ cfg_pc = "start"
  /\ IF ConfigPath \notin DOMAIN fs
       THEN cfg_pc' = "done" /\ cfg_result' = ConfigMissing /\ UNCHANGED rd
       ELSE cfg_pc' = "read" /\ rd' = StartRead(fs) /\ UNCHANGED cfg_result
  /\ UNCHANGED <<fs, cfg_alias, parsed>>
  /\ UNCHANGED <<execVars, regVars, connVars, procVars, toolVars>>

\* lines 48-94: read_config_file goes one step
CfgRead ==
  /\ cfg_pc = "read"
  /\ rd' = ReadStep(fs, rd)
  /\ cfg_pc' = IF rd'.done THEN "parse" ELSE "read"
  /\ UNCHANGED <<fs, cfg_alias, parsed, cfg_result>>
  /\ UNCHANGED <<execVars, regVars, connVars, procVars, toolVars>>

\* lines 110-186: the loop over the lines of the expanded content
CfgParse ==
  /\ cfg_pc = "parse"
  /\ parsed' = ParseLines(StartParse, rd.content)
  /\ IF parsed'.panicked
       THEN cfg_pc' = "done" /\ cfg_result' = Panicked
       ELSE cfg_pc' = "resolve" /\ UNCHANGED cfg_result
  /\ UNCHANGED <<fs, cfg_alias, rd>>
  /\ UNCHANGED <<execVars, regVars, connVars, procVars, toolVars>>

\* lines 190-211: exact entry, else a matching pattern, else the error
CfgResolve ==
  /\ cfg_pc = "resolve"
  /\ cfg_result' \in Resolve(parsed.hosts, cfg_alias)
  /\ cfg_pc' = "done"
  /\ UNCHANGED <<fs, cfg_alias, rd, parsed>>
  /\ UNCHANGED <<execVars, regVars, connVars, procVars, toolVars>>

NextConfig ==
  \/ CfgStart
  \/ CfgRead
  \/ CfgParse
  \/ CfgResolve

InitConfig ==
  /\ InitCfg
  /\ InitReg
  /\ ExecIdle
  /\ ConnIdle
  /\ ProcIdle
  /\ ToolIdle

\* one parse_ssh_config call, from its first line to its return
SpecConfig == InitConfig /\ [][NextConfig]_vars

----------------------------------------------------------------------------
(* The tool layer, src/mcp/tools.rs *)

\* str::ends_with('\n')
EndsWithNewline(text) == text # <<>> /\ text[Len(text)] = "LF"

\* channel.rs lines 48-63, CommandOutput::combined: stdout unless it is
\* blank, then stderr unless it is blank, a newline between them if needed
combined(out) ==
  LET res == IF trim(out.stdout) # <<>> THEN out.stdout ELSE <<>>
  IN  IF trim(out.stderr) # <<>>
        THEN res
               \o (IF res # <<>> /\ ~EndsWithNewline(res) THEN <<"LF">> ELSE <<>>)
               \o out.stderr
        ELSE res

\* the literal "STDERR:\n" of tools.rs lines 170 and 205
StderrLabel == <<"STDERR:", "LF">>

\* tools.rs lines 162-173 and 197-208: the text of the tool response
result_text(out) ==
  LET text == IF trim(out.stdout) # <<>> THEN out.stdout ELSE <<>>
  IN  IF trim(out.stderr) # <<>>
        THEN text
               \o (IF text # <<>> /\ ~EndsWithNewline(text) THEN <<"LF">> ELSE <<>>)
               \o StderrLabel \o out.stderr
        ELSE text

\* channel.rs lines 251-254: the CommandOutput of a result of the executor,
\* stderr: String::new()
CommandOutputOf(res) == [stdout |-> res.stdout, stderr |-> <<>>]

\* ssh_run_command_impl, tools.rs lines 149-181: the tool result for what
\* execute_command returned
ssh_run_command_impl(kind, out) ==
  IF kind = "Ok"
    THEN IF HasPrompt(combined(out))
           THEN [kind |-> "PromptUnanswered", text |-> <<>>]
           ELSE [kind |-> "Success", text |-> result_text(out)]
    ELSE [kind |-> kind, text |-> <<>>]

\* ssh_read_log_impl, tools.rs lines 194-215: the tool result for what
\* execute_command returned for the tail command
ssh_read_log_impl(kind, out) ==
  IF kind = "Ok"
    THEN [kind |-> "Success", text |-> result_text(out)]
    ELSE [kind |-> kind, text |-> <<>>]

\* what the remote printed, as stdout
ToolStdouts ==
  {<<>>, <<"LF">>, <<"o">>, <<"o", "LF">>, <<"o", "LF", "p">>,
   <<"[sudo] password">>, <<"o", "LF", "Password:">>}

\* stderr, were a channel to fill it
ToolStderrs == {<<>>, <<"LF">>, <<" ">>, <<"e">>, <<"e", "LF">>, <<"Password:">>}

\* the results execute_command hands over
InitTool ==
  /\ \/ /\ exec_kind = "Ok"
        /\ output \in [stdout : ToolStdouts, stderr : ToolStderrs]
     \/ /\ exec_kind \in {"Timeout", "NotConnected"}
        /\ output = [stdout |-> <<>>, stderr |-> <<>>]
  /\ tl_pc = "start"
  /\ rendered = <<>>
  /\ run_result = [kind |-> "none", text |-> <<>>]
  /\ log_result = [kind |-> "none", text |-> <<>>]

\* output.combined()
ToolCombined ==
  /\ tl_pc = "start"
  /\ rendered' = combined(output)
  /\ tl_pc' = "run"
  /\ UNCHANGED <<exec_kind, output, run_result, log_result>>
  /\ UNCHANGED <<execVars, regVars, connVars, procVars, cfgVars>>

\* ssh_run_command for a command of this output
ToolRunCommand ==
  /\ tl_pc = "run"
  /\ run_result' = ssh_run_command_impl(exec_kind, output)
  /\ tl_pc' = "log"
  /\ UNCHANGED <<exec_kind, output, rendered, log_result>>
  /\ UNCHANGED <<execVars, regVars, connVars, procVars, cfgVars>>

\* ssh_read_log for a file of which tail prints this output
ToolReadLog ==
  /\ tl_pc = "log"
  /\ log_result' = ssh_read_log_impl(exec_kind, output)
  /\ tl_pc' = "done"
  /\ UNCHANGED <<exec_kind, output, rendered, run_result>>
  /\ UNCHANGED <<execVars, regVars, connVars, procVars, cfgVars>>

NextTools ==
  \/ ToolCombined
  \/ ToolRunCommand
  \/ ToolReadLog

InitTools ==
  /\ InitTool
  /\ InitReg
  /\ ExecIdle
  /\ ConnIdle
  /\ ProcIdle
  /\ CfgIdle

\* the tool layer on one result of execute_command
SpecTools == InitTools /\ [][NextTools]_vars

----------------------------------------------------------------------------
(* Claims about execute_command, checked under SpecExec *)

\* the bytes of a script's output, without the delays between them
OutBytes(o) == SelectSeq(o, LAMBDA x : x \notin ControlTokens)

\* the call has read everything the remote emits up to and including the
\* marker that the remote's `echo <marker>` printed (the end of that line
\* and what follows it may still be unread)
RealMarkerRead == Len(pending) <= Len(MarkLine) - Len(Marker1) + Len(script.tail)

\* C1: a successful execute returns a stdout that contains neither the
\* call's marker nor the literal `<command>; echo <marker>`.
C1_NoMarkerNoEchoInStdout ==
  result.kind = "Ok" =>
    /\ ~Contains(result.stdout, Marker1)
    /\ ~Contains(result.stdout, full_cmd(Command, Marker1))

\* C2: when the first marker occurrence seen is the one in the echoed line
\* and the output and the real marker come later, execute does not return
\* success before the real marker has been read, and the output emitted
\* between the echo and the real marker is in the returned stdout.
C2_WaitsForRealMarker ==
  (result.kind = "Ok" /\ script.kind = "cmd" /\ script.echo # <<>>
     /\ script.out \in AsciiOutputs) =>
    /\ RealMarkerRead
    /\ Contains(result.stdout, CleanedOutput(from_utf8_lossy(OutBytes(script.out))))

\* C3: the remote emits S and then the completion marker, with or without a
\* preceding echo, without delay: for every chunking, stdout is S with
\* trailing whitespace trimmed.
C3_RoundTrip ==
  (result.kind = "Ok" /\ script.kind = "cmd" /\ script.gap = 0
     /\ script.out \in {<<"h", "CR", "LF">>, <<"C3", "A9", "LF">>}) =>
    result.stdout = trim_end(from_utf8_lossy(script.out))

\* the 30 s deadline, one more loop iteration, and one drain phase of
\* CONTINUE_READ_ATTEMPTS reads that each time out or return 0 bytes
ReturnBound ==
  COMMAND_TIMEOUT + READ_TIMEOUT_MS + SLEEP_ON_EOF_MS
    + CONTINUE_READ_ATTEMPTS * (CONTINUE_READ_TIMEOUT_MS + SLEEP_ON_EOF_MS)

\* C4: every execute returns no later than the 30 s deadline plus one
\* bounded drain phase: no call is still reading after that time.
C4_ReturnsWithinBound ==
  pc \in {"loop", "drain"} => now <= ReturnBound

\* C10: once the buffer of an execute called without a password has
\* contained an elevation prompt, the call fails with PromptUnanswered
\* and returns no output.
C10_PromptUnanswered ==
  (pc = "done" /\ sawPrompt /\ sudo_password = NoPassword) =>
    ssh_run_command_impl(result.kind, CommandOutputOf(result)).kind = "PromptUnanswered"

\* the line that answers an elevation prompt
PasswordLine == sudo_password \o <<"LF">>

\* C11: in an execute called with a password, `<password>\n` is written to
\* the channel when the buffer first contains an elevation prompt, and once
\* only for that command, whatever prompts follow.
C11_PasswordWrittenOnce ==
  (sudo_password # NoPassword /\ sawPrompt) =>
    Cardinality({i \in 1..Len(written) : written[i] = PasswordLine}) = 1

\* C12: when the command deadline has elapsed without completion, execute
\* returns a Timeout error and nothing of the accumulated output: a call
\* that ends later than the deadline and one drain phase ends that way.
C12_TimeoutDiscardsOutput ==
  (pc = "done" /\ now > ReturnBound) =>
    (result.kind = "Timeout" /\ result.stdout = <<>>)

\* a DCS, PM or APC string starts at i: ESC P, ESC ^ or ESC _ up to the
\* next ESC \, over any number of lines
ControlString(s, i) ==
  /\ i + 1 <= Len(s) /\ s[i] = "ESC" /\ s[i + 1] \in {"P", "^", "_"}
  /\ \E j \in (i + 2)..(Len(s) - 1) : s[j] = "ESC" /\ s[j + 1] = "BSL"

\* s contains a CSI sequence, an OSC sequence or a DCS/PM/APC string
HasEscapeSequence(s) ==
  \E i \in 1..Len(s) : CsiMatch(s, i) > 0 \/ OscMatch(s, i) > 0 \/ ControlString(s, i)

\* C13: the stdout of every execute return has no trailing whitespace and
\* contains no CSI, OSC or DCS/APC/PM escape sequence, whatever the buffer
\* held (nested or adjacent sequences, sequences over several lines).
C13_StdoutClean ==
  pc = "done" =>
    /\ result.stdout = <<>> \/ result.stdout[Len(result.stdout)] \notin Whitespace
    /\ ~HasEscapeSequence(result.stdout)

----------------------------------------------------------------------------
(* Claims about the SessionManager, checked under Spec *)

\* the execute calls that are running on the channel of alias a
InFlight(a) ==
  {t \in Tasks : cpc[t] \in {"exec_write", "exec_read"} /\ cop[t].alias = a}

\* C5: at any instant and for any alias, at most one execute is in flight
\* on the alias's session, whatever the callers do concurrently.
C5_OneExecuteInFlight ==
  \A a \in Aliases : Cardinality(InFlight(a)) <= 1

\* an execute runs on alias a while another caller's execute for a waits
C5_Witness ==
  \E a \in Aliases, t \in Tasks :
    /\ InFlight(a) # {}
    /\ t \notin InFlight(a)
    /\ cpc[t] = "wait" /\ cop[t].op = "execute" /\ cop[t].alias = a

\* the steps of an operation that the code runs with the guard alive
LockedSteps == {"exec_write", "exec_read", "disc_close", "disc_goodbye"}

\* C6 as stated: all operations are serialized process-wide, a connect's
\* whole resolve/establish/authenticate/insert sequence included: no two
\* operations are executing at the same time.
C6_AllOperationsSerialized ==
  Cardinality({t \in Tasks : cpc[t] \in LockedSteps \cup {"establish"}}) <= 1

\* C6, amended: the parts of the operations that run under the registry
\* lock (a connect's insert, an execute from lookup to return, a disconnect
\* from removal to return, list and is_connected) are serialized
\* process-wide, also on different aliases: a task in such a part holds the
\* lock, and a waiting operation proceeds only when nobody holds it.
C6_LockedSectionsSerialized ==
  /\ [](\A t \in Tasks : cpc[t] \in LockedSteps => lock = t)
  /\ [][\A t \in Tasks :
          (cpc[t] = "wait" /\ cpc'[t] # "wait") => lock = "free"]_vars

\* an execute runs on alias "a" while an operation on alias "b" waits for it
C6_Witness ==
  \E t1, t2 \in Tasks :
    /\ cpc[t1] = "exec_read" /\ cop[t1].alias = "a"
    /\ cpc[t2] = "wait" /\ cop[t2].alias = "b" /\ cop[t2].op \in ConnectOps

\* C7: after any interleaving of connect_*, execute and disconnect calls,
\* the key set of the map is the set of aliases for which a connect_* has
\* succeeded with no disconnect since (each call counted when it takes the
\* lock).
C7_KeysAreConnected == Keys = connected

\* "a" is connected, and "b" was connected and is being disconnected
C7_Witness ==
  /\ Keys = {"a"}
  /\ \E t \in Tasks : cpc[t] = "disc_goodbye" /\ cop[t].alias = "b"

\* the command of the execute on alias a that is served and not yet written
Unwritten(a) ==
  IF \E t \in Tasks : cpc[t] = "exec_write" /\ cop[t].alias = a
    THEN <<cop[CHOOSE t \in Tasks : cpc[t] = "exec_write" /\ cop[t].alias = a].cmd>>
    ELSE <<>>

\* C8: the command lines of the execute calls served for an alias since its
\* last connect or disconnect are written to one channel, that of the
\* alias's session, in the order the calls were served.
C8_WrittenInServedOrder ==
  \A a \in Keys : servedLog[a] = sessions[a].written \o Unwritten(a)

\* two callers' commands have been written to the channel of one session
C8_Witness ==
  \E a \in Keys :
    /\ Len(sessions[a].written) = 2
    /\ sessions[a].written[1] # sessions[a].written[2]

\* C9: an execute on an alias that has no entry returns NotConnected, and
\* its step writes to no channel and leaves the map as it is.
C9_NotConnected ==
  [][\A t \in Tasks :
       (cpc[t] = "wait" /\ cop[t].op = "execute" /\ cop[t].alias \notin Keys
          /\ cpc'[t] # "wait")
         => /\ cret'[t].val = "NotConnected"
            /\ cpc'[t] = "idle"
            /\ sessions' = sessions
            /\ csess' = csess]_vars

\* an execute on a missing alias has returned while another alias is connected
C9_Witness ==
  \E t \in Tasks : cret[t].val = "NotConnected" /\ Keys # {}

\* this step is the insert of task t's connect, and it replaces a session
Replacing(t) ==
  /\ cpc[t] = "wait" /\ cop[t].op \in ConnectOps /\ cpc'[t] = "idle"
  /\ sessions[cop[t].alias] # NoSession

\* this step takes the session of alias a out of the map and hands it to nobody
RemovedBare(a) ==
  /\ sessions[a] # NoSession /\ sessions'[a] = NoSession
  /\ csess' = csess

\* this step drops the session that task t's disconnect removed from the map
DroppedBy(t) ==
  /\ cop[t].op = "disconnect"
  /\ csess[t] # NoSession /\ csess'[t] = NoSession

\* C14 as stated: every session that leaves the map, by disconnect or by
\* being replaced, has its channel closed and the "Goodbye" disconnect sent.
C14_EveryLeavingSessionClosed ==
  [][/\ \A t \in Tasks : ~Replacing(t)
     /\ \A a \in Aliases : ~RemovedBare(a)
     /\ \A t \in Tasks :
          DroppedBy(t) =>
            (csess[t].closed /\ cpc[t] = "disc_goodbye" /\ cret'[t].val = "Ok")]_vars

\* C14, amended: every session removed by a disconnect that returns success
\* has had its channel closed and then the "Goodbye" disconnect sent; no
\* session leaves the map by disconnect without being handed to that path.
C14_DisconnectedSessionClosed ==
  [][/\ \A a \in Aliases : ~RemovedBare(a)
     /\ \A t \in Tasks :
          (DroppedBy(t) /\ cret'[t].val = "Ok") =>
            (csess[t].closed /\ cpc[t] = "disc_goodbye")]_vars

\* a session that ran a command was removed, its channel is closed and the
\* Goodbye is about to be sent
C14_Witness ==
  \E t \in Tasks :
    cpc[t] = "disc_goodbye" /\ csess[t].closed /\ csess[t].written # <<>>

\* C15: a disconnect on an alias that has no entry returns success, leaves
\* every entry of the map as it is and touches no session.
C15_DisconnectMissingIsNoOp ==
  [][\A t \in Tasks :
       (cpc[t] = "wait" /\ cop[t].op = "disconnect" /\ cop[t].alias \notin Keys
          /\ cpc'[t] # "wait")
         => /\ cret'[t].val = "Ok"
            /\ cpc'[t] = "idle"
            /\ sessions' = sessions
            /\ csess' = csess
            /\ lock' = lock]_vars

\* a disconnect on a missing alias is next to take the lock while the other
\* alias has a session that ran a command
C15_Witness ==
  \E t \in Tasks :
    /\ CanAcquire(t) /\ cop[t].op = "disconnect" /\ cop[t].alias \notin Keys
    /\ \E a \in Keys : sessions[a].written # <<>>

\* C16: when a connect succeeds for an alias that has a session, the
\* alias's one entry becomes the session that connect established, the old
\* one is kept nowhere, and an execute served afterwards writes to the entry
\* the map then holds for the alias, and to no other session.
C16_ReplacedSessionNeverUsed ==
  /\ [][\A t \in Tasks :
          Replacing(t) =>
            /\ sessions'[cop[t].alias] = csess[t]
            /\ csess[t] = NewSession
            /\ \A u \in Tasks : csess'[u] = NoSession \/ csess'[u] = csess[u]
            /\ \A a \in Aliases \ {cop[t].alias} : sessions'[a] = sessions[a]]_vars
  /\ [][\A t \in Tasks :
          (cpc[t] = "exec_write" /\ cpc'[t] = "exec_read") =>
            /\ sessions'[cop[t].alias] =
                 [sessions[cop[t].alias] EXCEPT !.written = Append(@, cop[t].cmd)]
            /\ \A a \in Aliases \ {cop[t].alias} : sessions'[a] = sessions[a]
            /\ csess' = csess]_vars

\* a connect is next to take the lock for an alias whose session has run a
\* command, and an execute on the alias waits behind it
C16_Witness ==
  \E t, u \in Tasks :
    /\ CanAcquire(t) /\ cop[t].op \in ConnectOps
    /\ sessions[cop[t].alias].written # <<>>
    /\ cpc[u] = "wait" /\ cop[u].op = "execute" /\ cop[u].alias = cop[t].alias

----------------------------------------------------------------------------
(* Claims about the session establisher, checked under SpecConnect *)

\* the calls of the log that are authentication attempts
AuthCalls == SelectSeq(calls, LAMBDA c : c[1] \notin
               {"lookup_host", "connect", "handshake", "channel_session", "request_pty:xterm", "shell"})

\* the order of the authentication ladder
Ladder ==
  <<"userauth_agent", "userauth_pubkey_file:identity">>
    \o [i \in 1..Len(KeyPaths) |-> "userauth_pubkey_file:" \o KeyPaths[i]]

Rank(name) == CHOOSE i \in 1..Len(Ladder) : Ladder[i] = name

\* the last three calls on the session: channel, PTY of type xterm, shell,
\* all successful
ShellStarted ==
  /\ Len(calls) >= 3
  /\ SubSeq(calls, Len(calls) - 2, Len(calls)) =
       << <<"channel_session", TRUE>>, <<"request_pty:xterm", TRUE>>, <<"shell", TRUE>> >>

\* C17: a session is put into the map only when it is authenticated and its
\* channel was opened, a PTY of type xterm requested on it and a shell
\* started, in that order and each with success.
C17_InsertedSessionEstablished ==
  [][sessions' # sessions =>
       /\ session_authenticated
       /\ ShellStarted
       /\ \A i \in 1..Len(calls) :
            calls[i][2] \/ calls[i][1] \in {Ladder[j] : j \in 1..Len(Ladder)}
       /\ sessions' = [sessions EXCEPT ![host_alias] = NewSession]]_vars

\* a session was inserted after an authentication attempt that failed
C17_Witness ==
  /\ cn_ret = "Ok"
  /\ sessions[host_alias] = NewSession
  /\ \E i \in 1..Len(calls) : ~calls[i][2]

\* C18: a key-based connect makes its authentication attempts in the order
\* agent, explicit identity file, id_ed25519, id_rsa, id_ecdsa, id_dsa, and
\* makes none once an attempt has authenticated the session.
C18_LadderOrder ==
  /\ [](method # "connect_with_password" =>
          \A i, j \in 1..Len(AuthCalls) :
            i < j => Rank(AuthCalls[i][1]) < Rank(AuthCalls[j][1]))
  /\ [][(method # "connect_with_password" /\ authenticated) =>
          Len(AuthCalls') = Len(AuthCalls)]_vars

\* the agent and id_ed25519 failed, id_rsa authenticated, and id_ecdsa,
\* which exists, was not tried
C18_Witness ==
  /\ cn_ret = "Ok"
  /\ "id_ecdsa" \in files
  /\ \E i, j, k \in 1..Len(calls) :
       /\ i < j /\ j < k
       /\ calls[i] = <<"userauth_agent", FALSE>>
       /\ calls[j][1] = "userauth_pubkey_file:id_ed25519"
       /\ calls[k] = <<"userauth_pubkey_file:id_rsa", TRUE>>
  /\ \A i \in 1..Len(calls) : calls[i][1] # "userauth_pubkey_file:id_ecdsa"

\* C19: with identities_only set, connect makes no agent attempt and probes
\* no common identity path: its only attempt is the explicit identity file.
C19_IdentitiesOnly ==
  config.identities_only =>
    \A i \in 1..Len(AuthCalls) : AuthCalls[i][1] = "userauth_pubkey_file:identity"

\* identities_only is set, common key files exist, and the call has ended
\* having tried the explicit identity file
C19_Witness ==
  /\ config.identities_only
  /\ cn_pc = "done"
  /\ KeyFiles \subseteq files
  /\ Len(AuthCalls) = 1

\* the errors with which connect returns from inside the ladder
LadderErrors ==
  {AuthExhausted, "Identity file not found", KeyAuthError}

C21_KeyAuthCitesFile ==
  (/\ cn_pc = "done"
   /\ config.identities_only
   /\ \E i \in 1..Len(calls) : calls[i][1] = "userauth_pubkey_file:identity"
   /\ ~session_authenticated)
    => cn_ret = KeyAuthError

\* the configuration errors of a HostConfig without hostname or user
ConfigErrors == {"Hostname not specified", "User not specified"}

\* C22: connect with a HostConfig that lacks hostname or user fails with a
\* configuration error before any address lookup, TCP connect, handshake or
\* authentication step, and leaves the map of sessions as it was.
C22_MissingFieldFailsEarly ==
  /\ [](cn_pc = "done" /\ method # "connect_with_password"
         /\ (~config.hostname \/ ~config.user)
         /\ cn_ret # "Host not found in SSH config"
           => cn_ret \in ConfigErrors /\ calls = <<>>)
  /\ [][cn_ret' \in ConfigErrors => sessions' = sessions]_vars

\* a connect failed on a missing field while another alias was connected
C22_Witness ==
  /\ cn_ret \in ConfigErrors
  /\ ~config.user
  /\ sessions["b"] = UsedSession

----------------------------------------------------------------------------
(* Claims about the process, checked under SpecProcess *)

\* C23: when the process has exited (the MCP server, the CLI on exit or
\* quit, the legacy connect mode), no session is left in the map that
\* disconnect was not called for.
C23_ShutdownDisconnectsAll ==
  ppc = "exited" => \A a \in Aliases : sessions[a] = NoSession

----------------------------------------------------------------------------
(* Claims about the host resolver, checked under SpecConfig *)

\* how often the line l is in the sequence of lines
Occurrences(lines, l) == Cardinality({i \in 1..Len(lines) : lines[i] = l})

\* the comment lines that name the three files
FileMarks == {BaseC[1], BaseX[1], BaseY[1]}

\* the words of the lines, one more per line
RECURSIVE LinesWeight(_)
LinesWeight(lines) ==
  IF lines = <<>> THEN 0
  ELSE 1 + Len(split_whitespace(Head(lines))) + LinesWeight(Tail(lines))

RECURSIVE PathsWeight(_)
PathsWeight(paths) ==
  IF paths = {} THEN 0
  ELSE LET q == CHOOSE q \in paths : TRUE
       IN  2 + LinesWeight(fs[q]) + PathsWeight(paths \ {q})

RECURSIVE StackWeight(_)
StackWeight(stack) ==
  IF stack = <<>> THEN 0
  ELSE 1 + Len(Head(stack).targets) + LinesWeight(Head(stack).rest)
         + StackWeight(Tail(stack))

\* a bound on the steps read_config_file has left: the lines and paths its
\* activations still have to look at, and the files not visited so far
WorkLeft(m) == StackWeight(m.stack) + PathsWeight(DOMAIN fs \ m.visited)

\* the expanded content, finished or being put together, has the lines of
\* each file at most once
OnceEach(m) ==
  \A l \in FileMarks :
    /\ Occurrences(m.content, l) <= 1
    /\ \A i \in 1..Len(m.stack) :
         Occurrences(m.stack[i].includes \o m.stack[i].result, l) <= 1

\* C24: Include expansion comes to an end for every set of files, also when
\* files include each other or themselves, and the expanded content holds
\* the content of each file at most once.
C24_IncludeTerminatesOnce ==
  [][/\ OnceEach(rd')
     /\ cfg_pc = "read" =>
          /\ rd.stack # <<>>
          /\ WorkLeft(rd') < WorkLeft(rd)
          /\ WorkLeft(rd') >= 0]_vars

\* the config file and x include each other, and the call has returned with
\* the lines of both
C24_Witness ==
  /\ cfg_pc = "done"
  /\ {ConfigPath, PathX} \subseteq DOMAIN fs
  /\ fs[ConfigPath][1] = Ln(KwInclude, <<"~", "/", "x">>)
  /\ fs[PathX][1] = Ln(KwInclude, <<"~", "/", ".ssh/config">>)
  /\ Occurrences(rd.content, BaseC[1]) = 1
  /\ Occurrences(rd.content, BaseX[1]) = 1

\* the results that are errors
ResolveErrors == {NotFound, Panicked, ConfigMissing, NoResolution}

\* the call was for a file of one Host block, whose last line is looked at
OneBlock == ConfigPath \in DOMAIN fs /\ fs \in DirectiveFiles

LastLine == fs[ConfigPath][Len(fs[ConfigPath])]

\* the last line has the keyword kw, in whatever case
LastIs(kw) == starts_with(to_lowercase(LastLine), Pattern(kw))

\* the value of the last line, whose keyword is kw
LastValue(kw) == Drop(LastLine, Len(kw) + 1)

\* what the same file without its last line resolves to
Before ==
  CHOOSE r \in Resolutions(
      (ConfigPath :> SubSeq(fs[ConfigPath], 1, Len(fs[ConfigPath]) - 1)),
      cfg_alias) : TRUE

\* v is a decimal integer between 1 and 65535
ValidPort(v) ==
  /\ v # <<>>
  /\ \A i \in 1..Len(v) : IsDigit(v[i])
  /\ DecimalValue(v) >= 1
  /\ DecimalValue(v) <= U16Max

\* C25: a Port line sets port to v exactly when its value is a decimal
\* integer v with 1 <= v <= 65535; any other value leaves port as it was,
\* and the alias is still resolved.
C25_PortRange ==
  (cfg_pc = "done" /\ OneBlock /\ LastIs(KwPort)) =>
     /\ cfg_result \notin ResolveErrors
     /\ cfg_result.port = IF ValidPort(LastValue(KwPort))
                            THEN DecimalValue(LastValue(KwPort))
                            ELSE Before.port

\* the names the Host lines of the expanded content declare
Declared ==
  {trim(Drop(trim(rd.content[i]), Len(KwHost) + 1)) :
     i \in {j \in 1..Len(rd.content) :
              starts_with(to_lowercase(trim(rd.content[j])), Pattern(KwHost))}}

\* the declared names with a * that, as patterns, match the alias
DeclaredMatches ==
  {pat \in Declared : Contains(pat, <<"*">>) /\ is_match(replace_star(pat), cfg_alias)}

\* C26: resolving an alias returns the config of the Host entry of that name
\* whenever one is declared; the patterns are consulted only when there is
\* none; Host not found is returned when no entry and no pattern matches.
C26_ExactBeforePatterns ==
  (cfg_pc = "done" /\ cfg_result \notin {Panicked, ConfigMissing}) =>
     /\ cfg_alias \in Declared =>
          cfg_result = parsed.hosts[cfg_alias] /\ cfg_result.host = cfg_alias
     /\ cfg_alias \notin Declared /\ DeclaredMatches # {} =>
          cfg_result.host \in DeclaredMatches
     /\ cfg_alias \notin Declared /\ DeclaredMatches = {} => cfg_result = NotFound

\* the alias is declared and a declared pattern matches it as well; the
\* entry of the alias was returned
C26_Witness ==
  /\ cfg_pc = "done"
  /\ cfg_alias \in Declared
  /\ DeclaredMatches # {}
  /\ cfg_result.host = cfg_alias
  /\ cfg_result.hostname = <<"2">>

\* the nine directive keywords
Keywords ==
  {KwHost, KwHostName, KwUser, KwPort, KwIdentityFile, KwProxyCommand,
   KwProxyUseFdpass, KwIdentitiesOnly, KwInclude}

\* the line with its keyword written as usual
UsualCase(line) ==
  IF \E kw \in Keywords : starts_with(to_lowercase(line), Pattern(kw))
    THEN (CHOOSE kw \in Keywords : starts_with(to_lowercase(line), Pattern(kw)))
           \o Drop(line, Len(CHOOSE kw \in Keywords :
                               starts_with(to_lowercase(line), Pattern(kw))))
    ELSE line

\* the files with every keyword written as usual
UsualCaseFiles(fsys) ==
  [q \in DOMAIN fsys |-> [i \in 1..Len(fsys[q]) |-> UsualCase(fsys[q][i])]]

\* C27: every directive keyword is recognized in any letter case: the call
\* returns what it returns for the same files with the keywords written as
\* usual.
C27_KeywordCase ==
  cfg_pc = "done" => cfg_result \in Resolutions(UsualCaseFiles(fs), cfg_alias)

\* v is surrounded by a matched pair of single or of double quotes
MatchedQuotes(v) == Len(v) >= 2 /\ v[1] \in Quotes /\ v[Len(v)] = v[1]

\* C28: a ProxyCommand value loses its first and last character exactly when
\* it is surrounded by a matched pair of quotes; every other value, one lone
\* quote character included, is kept as it is, and parsing completes.
C28_ProxyCommandQuotes ==
  (cfg_pc = "done" /\ OneBlock /\ LastIs(KwProxyCommand)) =>
     /\ cfg_result \notin ResolveErrors
     /\ cfg_result.proxy_command =
          IF MatchedQuotes(LastValue(KwProxyCommand))
            THEN SubSeq(LastValue(KwProxyCommand), 2,
                        Len(LastValue(KwProxyCommand)) - 1)
            ELSE LastValue(KwProxyCommand)

----------------------------------------------------------------------------
(* Claims about the tool layer, checked under SpecTools *)

\* stdout when it is not blank; when stderr is not empty, a newline unless
\* what precedes is empty or ends with one, the label, and stderr
LabelledRendering(out) ==
  LET first == IF trim(out.stdout) # <<>> THEN out.stdout ELSE <<>>
  IN  IF out.stderr # <<>>
        THEN first
               \o (IF first # <<>> /\ ~EndsWithNewline(first) THEN <<"LF">> ELSE <<>>)
               \o StderrLabel \o out.stderr
        ELSE first

C30_ReadLogAsRunCommand ==
  tl_pc = "done" => log_result = run_result

----------------------------------------------------------------------------
(* Claims about the read loop's bookkeeping, checked under SpecExec *)

\* where the last truncation cut the buffer: channel.rs lines 209-211
CutPosition == find_last_marker_position(cut, marker)

\* C31: the buffer is truncated only at a marker occurrence that starts the
\* buffer or directly follows a newline, never at the occurrence embedded in
\* the echoed command line.
C31_TruncatesAtOwnLineMarker ==
  cut # <<>> => (CutPosition = 1 \/ cut[CutPosition - 1] = "LF")

\* C32: the drain phase makes at most CONTINUE_READ_ATTEMPTS reads in total,
\* whatever the remote sends while it runs.
C32_DrainReadsBounded ==
  drain_reads <= CONTINUE_READ_ATTEMPTS

\* the read loop ends with success although no marker was detected
EndsWithoutMarker ==
  /\ pc = "loop"
  /\ pc' = "done"
  /\ result'.kind = "Ok"
  /\ ~marker_found'

\* a read of n > 0 bytes in the read loop: channel.rs lines 165-172
ReadsData == pc = "loop" /\ stdout' # stdout

\* the step was a 100 ms tick, which leaves the count as it is
OnTick == no_data_count' = no_data_count

\* The statement of C33 as the specification words it: the loop ends without
\* a marker only after more than NO_DATA_THRESHOLD consecutive 0-byte reads
\* and more than IDLE_TIMEOUT_MS after the last successful read, and a read
\* of n > 0 bytes sets the count back to 0.
C33_IdleExitNeedsThresholdZeroReads ==
  [][ /\ EndsWithoutMarker =>
           /\ no_data_count' > NO_DATA_THRESHOLD
           /\ now' - last_read_time' > IDLE_TIMEOUT_MS
      /\ ReadsData => no_data_count' = 0 ]_vars

\* C33: before the deadline and without a detected marker the read loop ends
\* only when the last successful read is older than IDLE_TIMEOUT_MS and
\* either more than NO_DATA_THRESHOLD consecutive 0-byte reads have occurred
\* or, on a 100 ms tick, more than TICK_NO_DATA_MIN have; a read of n > 0
\* bytes sets the count of consecutive 0-byte reads back to 0.
C33_IdleExitThresholds ==
  [][ /\ EndsWithoutMarker =>
           /\ now' - last_read_time' > IDLE_TIMEOUT_MS
           /\ \/ no_data_count' > NO_DATA_THRESHOLD
              \/ OnTick /\ no_data_count' > TICK_NO_DATA_MIN
      /\ ReadsData => no_data_count' = 0 ]_vars

\* the loop has ended without a marker after a run of 0-byte reads
C33_Witness ==
  /\ pc = "done"
  /\ result.kind = "Ok"
  /\ ~marker_found
  /\ no_data_count > TICK_NO_DATA_MIN
  /\ now - last_read_time > IDLE_TIMEOUT_MS

----------------------------------------------------------------------------
(* Claims about successive calls on one channel, checked under SpecSeq *)

\* C34: no two execute calls use the same marker, however the system clock
\* the marker is derived from behaves.
C34_MarkersNeverRepeat ==
  \A i \in 1..Len(used) : used[i] # marker

\* the bytes the remote emits for the command now running, and the prompt
\* the shell prints between two commands
OwnBytes == {script.pre[i] : i \in 1..Len(script.pre)} \cup {"$"}

\* C35: the stdout returned for a later command holds no byte the remote
\* emitted for an earlier command of the same channel (its output, its echo or
\* its marker).
C35_NoBytesOfEarlierCommand ==
  (used # <<>> /\ pc = "done" /\ result.kind = "Ok") =>
    \A i \in 1..Len(result.stdout) : result.stdout[i] \in OwnBytes

----------------------------------------------------------------------------
(* Claims about the map while calls run, checked under Spec *)

\* the session of alias a after the step is the one before it, at most with
\* one more command written to its channel
SameSession(a) ==
  /\ sessions'[a] # NoSession
  /\ sessions'[a].closed = sessions[a].closed
  /\ sessions'[a].goodbye = sessions[a].goodbye
  /\ \/ sessions'[a].written = sessions[a].written
     \/ \E t \in InFlight(a) :
          sessions'[a].written = Append(sessions[a].written, cop[t].cmd)

\* the disconnects and connects for alias a that are waiting for the lock
Replacers(a) ==
  {u \in Tasks : /\ cpc[u] = "wait"
                 /\ cop[u].alias = a
                 /\ cop[u].op \in ConnectOps \cup {"disconnect"}}

\* C36: while an execute is in flight on a session, the session is neither
\* closed, disconnected nor replaced in the map: a disconnect and the insert
\* of a connect for its alias stay waiting until the command has returned.
C36_SessionKeptWhileExecuting ==
  [][\A a \in Aliases :
       InFlight(a) # {} =>
         /\ SameSession(a)
         /\ \A u \in Replacers(a) : cpc'[u] = "wait"]_vars

\* a command is being read on alias a while a disconnect and the insert of a
\* connect for a wait
C36_Witness ==
  \E t, u \in Tasks :
    /\ cpc[t] = "exec_read"
    /\ u \in Replacers(cop[t].alias)

\* this step is one of the steps of an execute of task t
ExecuteStep(t) ==
  /\ cop[t].op = "execute"
  /\ cpc[t] \in {"wait", "exec_write", "exec_read"}
  /\ cpc'[t] # cpc[t]

\* C38: no step of an execute adds, removes or replaces an entry of the map;
\* when an execute returns an error its alias is still in the map with the
\* session it had.
C38_ExecuteKeepsRegistry ==
  [][\A t \in Tasks :
       ExecuteStep(t) =>
         /\ Keys' = Keys
         /\ connected' = connected
         /\ \A a \in Aliases \ {cop[t].alias} : sessions'[a] = sessions[a]
         /\ cop[t].alias \in Keys => SameSession(cop[t].alias)
         /\ (cpc[t] # "wait" /\ cret'[t].val \in {"Timeout", "IoError"}) =>
              sessions'[cop[t].alias] = sessions[cop[t].alias]]_vars

\* an execute has timed out and the session it ran on is in the map, with
\* the command written to it
C38_Witness ==
  \E t \in Tasks, a \in Keys :
    /\ cret[t].val = "Timeout"
    /\ CommandOf[t] \in {sessions[a].written[i] : i \in 1..Len(sessions[a].written)}

----------------------------------------------------------------------------
(* A claim about a connect that fails, checked under SpecConnect *)

\* C37: a connect call that fails at any step leaves the map as it was: a
\* session registered under the alias stays registered as it is.
C37_FailedConnectKeepsRegistry ==
  [][cn_ret' # "Ok" =>
       /\ sessions' = sessions
       /\ connected' = connected]_vars

\* the shell of a new session did not start while the alias had a session
\* that has run a command
C37_Witness ==
  /\ cn_pc = "done"
  /\ cn_ret = "Failed to open shell"
  /\ sessions[host_alias] = UsedSession

----------------------------------------------------------------------------
(* Claims about the interactive loop, checked under SpecProcess and        *)
(* SpecProcessLive                                                         *)

\* C39: in CLI mode, whatever connect, disconnect and command lines were
\* read, current_host names an alias only if that alias is in the map.
C39_CurrentHostIsRegistered ==
  (mode = "cli" /\ ppc \in {"run", "blank"} /\ current_host # "none") =>
    sessions[current_host] # NoSession

\* C40: once standard input has reached end-of-file, the interactive loop
\* of the CLI mode and of the legacy connect mode ends.
C40_LoopEndsAtEof ==
  (mode \in {"cli", "connect"} /\ eof) ~> (ppc = "exited")

====
